---- MODULE Spec2Model ----
(***************************************************************************)
(* Model of bgt, the Bitcoin Core guix build watcher.                      *)
(*                                                                         *)
(* The watcher (src/src/watcher.rs) polls two tag sources, keeps a known   *)
(* set per source and an in-progress set, and drives the builder through   *)
(* the stages Build, NonCodeSigned and CodeSigned.  Strings are modelled   *)
(* as sequences of one-character strings so that the string functions of   *)
(* the code (trim_start_matches, split, parse) are computed, not assumed.  *)
(***************************************************************************)
EXTENDS Integers, Sequences, FiniteSets, TLC

\* ------------------------------------------------------------------ bounds

\* longest JSON array a tag source returns for one fetch
MaxFetchLen == 2

\* number of cycle bodies the watcher loop starts in one behaviour
MaxCycles == 2

\* ----------------------------------------------------------------- strings

v27_1 == <<"v", "2", "7", ".", "1">>
v27_2 == <<"v", "2", "7", ".", "2">>

\* the tags the two tag sources can return
Tags == {v27_1, v27_2}

Range(s) == {s[i] : i \in 1..Len(s)}

StartsWith(s, p) == Len(s) >= Len(p) /\ SubSeq(s, 1, Len(p)) = p

Drop(s, n) == SubSeq(s, n + 1, Len(s))

\* str::trim_start_matches(pat): removes every leading repetition of pat
RECURSIVE trim_start_matches(_, _)
trim_start_matches(s, pat) ==
    IF pat # <<>> /\ StartsWith(s, pat)
    THEN trim_start_matches(Drop(s, Len(pat)), pat)
    ELSE s

\* str::split(pat).collect(): the pieces of s between occurrences of pat
RECURSIVE SplitFrom(_, _, _)
SplitFrom(s, pat, cur) ==
    IF s = <<>> THEN <<cur>>
    ELSE IF StartsWith(s, pat)
         THEN <<cur>> \o SplitFrom(Drop(s, Len(pat)), pat, <<>>)
         ELSE SplitFrom(Tail(s), pat, Append(cur, Head(s)))

split(s, pat) == SplitFrom(s, pat, <<>>)

Digits == <<"0", "1", "2", "3", "4", "5", "6", "7", "8", "9">>

IsDigit(c) == \E d \in 1..10 : Digits[d] = c

DigitVal(c) == (CHOOSE d \in 1..10 : Digits[d] = c) - 1

\* A u32 is kept as its decimal digits without leading zeros (zero is the
\* empty sequence), so that values up to 2^32 - 1 are exact.
RECURSIVE StripZeros(_)
StripZeros(ds) ==
    IF ds # <<>> /\ Head(ds) = 0 THEN StripZeros(Tail(ds)) ELSE ds

DecimalValue(s) == StripZeros([i \in 1..Len(s) |-> DigitVal(s[i])])

RECURSIVE LexLess(_, _)
LexLess(a, b) ==
    IF a = <<>> \/ b = <<>> THEN FALSE
    ELSE IF Head(a) # Head(b) THEN Head(a) < Head(b)
    ELSE LexLess(Tail(a), Tail(b))

NumLess(a, b) == Len(a) < Len(b) \/ (Len(a) = Len(b) /\ LexLess(a, b))

\* u32::MAX = 4294967295
U32Max == <<4, 2, 9, 4, 9, 6, 7, 2, 9, 5>>

\* a value of Option<u32>
None == [some |-> FALSE, val |-> <<>>]

Some(n) == [some |-> TRUE, val |-> n]

\* str::parse::<u32>().ok(): an optional "+", then one or more digits, and
\* the value fits 32 bits
parse_u32(s) ==
    LET body == IF s # <<>> /\ Head(s) = "+" THEN Tail(s) ELSE s
    IN  IF body = <<>> \/ (\E i \in 1..Len(body) : ~IsDigit(body[i]))
        THEN None
        ELSE IF NumLess(U32Max, DecimalValue(body))
             THEN None
             ELSE Some(DecimalValue(body))

unwrap_or(o, d) == IF o.some THEN o.val ELSE d

\* ---------------------------------------------------------------- version

\* parse_version: (version components, release candidate number)
parse_version(v) ==
    LET t == trim_start_matches(v, <<"v">>)
        parts == split(t, <<"r", "c">>)
        comps == split(parts[1], <<".">>)
    IN  [version_parts |-> [i \in 1..Len(comps) |-> unwrap_or(parse_u32(comps[i]), <<>>)],
         rc |-> IF Len(parts) >= 2 THEN parse_u32(parts[2]) ELSE None]

cmp_u32(a, b) ==
    IF NumLess(a, b) THEN "Less" ELSE IF NumLess(b, a) THEN "Greater" ELSE "Equal"

\* Iterator::cmp: lexicographic, a proper prefix is Less
RECURSIVE cmp_iter(_, _)
cmp_iter(a, b) ==
    IF a = <<>> /\ b = <<>> THEN "Equal"
    ELSE IF a = <<>> THEN "Less"
    ELSE IF b = <<>> THEN "Greater"
    ELSE IF Head(a) # Head(b) THEN cmp_u32(Head(a), Head(b))
    ELSE cmp_iter(Tail(a), Tail(b))

\* Option::cmp: None is less than every Some
cmp_option(a, b) ==
    IF ~a.some /\ ~b.some THEN "Equal"
    ELSE IF ~a.some THEN "Less"
    ELSE IF ~b.some THEN "Greater"
    ELSE cmp_u32(a.val, b.val)

take(s, n) == SubSeq(s, 1, IF Len(s) < n THEN Len(s) ELSE n)

get(s, i) == IF i + 1 <= Len(s) THEN Some(s[i + 1]) ELSE None

\* mutant: a tag with an rc number is Less whichever side it stands on
compare_versions_rc_less(a, b) ==
    LET pa == parse_version(a)
        pb == parse_version(b)
        first == cmp_iter(take(pa.version_parts, 2), take(pb.version_parts, 2))
        third == cmp_option(get(pa.version_parts, 2), get(pb.version_parts, 2))
    IN  IF first # "Equal" THEN first
        ELSE IF third # "Equal" THEN third
        ELSE IF ~pa.rc.some /\ ~pb.rc.some THEN "Equal"
        ELSE IF pa.rc.some /\ ~pb.rc.some THEN "Less"
        ELSE IF ~pa.rc.some /\ pb.rc.some THEN "Less"
        ELSE cmp_u32(pa.rc.val, pb.rc.val)

\* mutant: a component or an rc suffix that does not parse is an error
compare_versions_strict(a, b) ==
    LET parts(v) == split(trim_start_matches(v, <<"v">>), <<"r", "c">>)
        comps(v) == split(parts(v)[1], <<".">>)
        bad(v) == \/ \E i \in 1..Len(comps(v)) : ~parse_u32(comps(v)[i]).some
                  \/ Len(parts(v)) >= 2 /\ ~parse_u32(parts(v)[2]).some
        pa == parse_version(a)
        pb == parse_version(b)
        first == cmp_iter(take(pa.version_parts, 2), take(pb.version_parts, 2))
        third == cmp_option(get(pa.version_parts, 2), get(pb.version_parts, 2))
    IN  IF bad(a) \/ bad(b) THEN "Err"
        ELSE IF first # "Equal" THEN first
        ELSE IF third # "Equal" THEN third
        ELSE IF ~pa.rc.some /\ ~pb.rc.some THEN "Equal"
        ELSE IF pa.rc.some /\ ~pb.rc.some THEN "Less"
        ELSE IF ~pa.rc.some /\ pb.rc.some THEN "Greater"
        ELSE cmp_u32(pa.rc.val, pb.rc.val)

compare_versions(a, b) ==
    LET pa == parse_version(a)
        pb == parse_version(b)
        first == cmp_iter(take(pa.version_parts, 2), take(pb.version_parts, 2))
        third == cmp_option(get(pa.version_parts, 2), get(pb.version_parts, 2))
    IN  IF first # "Equal" THEN first
        ELSE IF third # "Equal" THEN third
        ELSE IF ~pa.rc.some /\ ~pb.rc.some THEN "Equal"
        ELSE IF pa.rc.some /\ ~pb.rc.some THEN "Less"
        ELSE IF ~pa.rc.some /\ pb.rc.some THEN "Greater"
        ELSE cmp_u32(pa.rc.val, pb.rc.val)

\* ---------------------------------------------------------------- fetcher

RefPrefix == <<"r", "e", "f", "s", "/", "t", "a", "g", "s", "/">>

\* one element of the JSON array of the refs API: "ref" is a string or not
RefEntry(t) == [is_str |-> TRUE, ref |-> RefPrefix \o t]

NoRefEntry == [is_str |-> FALSE, ref |-> <<>>]

Entries == {RefEntry(t) : t \in Tags} \cup {NoRefEntry}

SeqsUpTo(S, n) == UNION {[1..k -> S] : k \in 0..n}

\* what curl and serde_json hand to the fetcher
Responses ==
    {[kind |-> "curl_failed", entries |-> <<>>],
     [kind |-> "not_json_array", entries |-> <<>>]}
    \cup {[kind |-> "array", entries |-> es] : es \in SeqsUpTo(Entries, MaxFetchLen)}

\* mutant: a new tag is reported but not inserted into the known set
RECURSIVE scan_new_tags_no_insert(_, _, _)
scan_new_tags_no_insert(entries, seen, new) ==
    IF entries = <<>> THEN [ok |-> TRUE, new_tags |-> new, seen_tags |-> seen]
    ELSE IF ~Head(entries).is_str
         THEN [ok |-> FALSE, new_tags |-> <<>>, seen_tags |-> seen]
         ELSE LET tag_name == trim_start_matches(Head(entries).ref, RefPrefix)
              IN  IF tag_name \notin seen
                  THEN scan_new_tags_no_insert(Tail(entries), seen,
                                               Append(new, tag_name))
                  ELSE scan_new_tags_no_insert(Tail(entries), seen, new)

\* the loop of check_for_new_tags over the parsed array; the known set is
\* the caller's, so what was inserted before an error stays inserted
RECURSIVE scan_new_tags(_, _, _)
scan_new_tags(entries, seen, new) ==
    IF entries = <<>> THEN [ok |-> TRUE, new_tags |-> new, seen_tags |-> seen]
    ELSE IF ~Head(entries).is_str
         THEN [ok |-> FALSE, new_tags |-> <<>>, seen_tags |-> seen]
         ELSE LET tag_name == trim_start_matches(Head(entries).ref, RefPrefix)
              IN  IF tag_name \notin seen
                  THEN scan_new_tags(Tail(entries), seen \cup {tag_name},
                                     Append(new, tag_name))
                  ELSE scan_new_tags(Tail(entries), seen, new)

\* mutant: the new tags are returned in version order
check_for_new_tags_sorted(seen_tags, resp) ==
    IF resp.kind # "array"
    THEN [ok |-> FALSE, new_tags |-> <<>>, seen_tags |-> seen_tags]
    ELSE LET r == scan_new_tags(resp.entries, seen_tags, <<>>)
             n == Len(r.new_tags)
         IN  [r EXCEPT !.new_tags =
                 CHOOSE ls \in [1..n -> Range(r.new_tags)] :
                     /\ Range(ls) = Range(r.new_tags)
                     /\ \A i, j \in 1..n :
                           i < j => compare_versions(ls[i], ls[j]) # "Greater"]

\* mutant: a failed fetch leaves the caller with an empty known set
check_for_new_tags_reset(seen_tags, resp) ==
    IF resp.kind # "array"
    THEN [ok |-> FALSE, new_tags |-> <<>>, seen_tags |-> {}]
    ELSE scan_new_tags(resp.entries, seen_tags, <<>>)

check_for_new_tags(seen_tags, resp) ==
    IF resp.kind # "array"
    THEN [ok |-> FALSE, new_tags |-> <<>>, seen_tags |-> seen_tags]
    ELSE scan_new_tags(resp.entries, seen_tags, <<>>)

\* the known-tags file: absent, or a sequence of lines
NoFile == [exists |-> FALSE, readable |-> FALSE, lines |-> <<>>]

FileOf(ls) == [exists |-> TRUE, readable |-> TRUE, lines |-> ls]

\* a file that File::open or a line read fails on (no permission to read,
\* bytes that are no UTF-8)
UnreadableFile(ls) == [exists |-> TRUE, readable |-> FALSE, lines |-> ls]

\* read_known_tags(..).unwrap_or_else(|_| HashSet::new())
read_known_tags(file) ==
    IF file.exists /\ file.readable THEN Range(file.lines) ELSE {}

\* the orders sort_by(compare_versions) can leave a set of tags in
SortedSeqs(S) ==
    {ls \in [1..Cardinality(S) -> S] :
        /\ Range(ls) = S
        /\ \A i, j \in 1..Cardinality(S) :
              i < j => compare_versions(ls[i], ls[j]) # "Greater"}

\* mutant: the tags are written in the iteration order of the set
write_known_tags_unsorted(tags) ==
    {FileOf(ls) : ls \in {l \in [1..Cardinality(tags) -> tags] : Range(l) = tags}}

\* write_known_tags: truncate, then one line per tag in sorted order
write_known_tags(tags) == {FileOf(ls) : ls \in SortedSeqs(tags)}

\* the loop of fetch_all_tags over the parsed array: entries without a
\* string ref are skipped
RECURSIVE merge_all_tags(_, _)
merge_all_tags(entries, existing) ==
    IF entries = <<>> THEN existing
    ELSE IF ~Head(entries).is_str THEN merge_all_tags(Tail(entries), existing)
    ELSE merge_all_tags(Tail(entries),
            existing \cup {trim_start_matches(Head(entries).ref, RefPrefix)})

\* the tag names fetch_all_tags takes from the parsed array, in the order the
\* API returned them
RECURSIVE tag_names(_)
tag_names(entries) ==
    IF entries = <<>> THEN <<>>
    ELSE IF ~Head(entries).is_str THEN tag_names(Tail(entries))
    ELSE <<trim_start_matches(Head(entries).ref, RefPrefix)>>
            \o tag_names(Tail(entries))

\* ---------------------------------------------------------------- watcher

Actions == {"Build", "NonCodeSigned", "CodeSigned"}

VARIABLES
    pc,                 \* where main / run_watcher is
    seen_tags_bitcoin,  \* known set of the source repository
    seen_tags_sigs,     \* known set of the detached-signatures repository
    in_progress,        \* run_watcher's in-progress set
    known_tags_bitcoin, \* the file known_tags_bitcoin
    known_tags_sigs,    \* the file known_tags_sigs
    new_tags,           \* what check_for_new_tags returned to the running cycle
    idx,                \* position of the cycle's for loop in new_tags
    result,             \* how the last cycle body ended: "none", "ok", or the
                        \* `?` that returned: "fetch_err", "create_err", "run_err"
    sigint_ready,       \* a SIGINT notification the ctrl_c() future gets
    sigterm_ready,      \* sigterm.recv() is ready
    stop_cause,         \* why run_watcher left its loop
    cycles,             \* cycle bodies started so far
    dispatched,         \* builder.run() calls per action and tag
    succeeded,          \* <<action, tag>> pairs whose run returned Ok
    warned,             \* tags for which cycle B logged its warning
    ip_before,          \* the in-progress set when the running cycle began
    sig_in_body,        \* a shutdown signal arrived while a body was running
    fetched,            \* tag names of the array fetched last, by the startup
                        \* or by the running cycle
    fn_in,              \* arguments of a function called on its own
    fn_out              \* what that function returned

vars == <<pc, seen_tags_bitcoin, seen_tags_sigs, in_progress,
          known_tags_bitcoin, known_tags_sigs, new_tags, idx, result,
          sigint_ready, sigterm_ready, stop_cause, cycles, dispatched,
          succeeded, warned, ip_before, sig_in_body, fetched, fn_in,
          fn_out>>

BodyPcs == {"A_fetch", "A_build", "A_attest", "A_done",
            "B_fetch", "B_tag", "B_done"}

\* a known-tags file left behind by an earlier run, or none
EarlierFiles == {NoFile} \cup UNION {write_known_tags(S) : S \in SUBSET Tags}

Init ==
    /\ pc = "start_bitcoin"
    /\ seen_tags_bitcoin = {}
    /\ seen_tags_sigs = {}
    /\ in_progress = {}
    /\ known_tags_bitcoin \in EarlierFiles
    /\ known_tags_sigs \in EarlierFiles
    /\ new_tags = <<>>
    /\ idx = 0
    /\ result = "none"
    /\ sigint_ready = FALSE
    /\ sigterm_ready = FALSE
    /\ stop_cause = "none"
    /\ cycles = 0
    /\ dispatched = [a \in Actions |-> [t \in Tags |-> 0]]
    /\ succeeded = {}
    /\ warned = {}
    /\ ip_before = {}
    /\ sig_in_body = FALSE
    /\ fetched = <<>>
    /\ fn_in = <<>>
    /\ fn_out = <<>>

\* --- startup: main's Watch arm calls fetch_all_tags, then run_watcher

\* mutant: a known-tags file that cannot be loaded is an error
fetch_all_repo_load_or_fail(file, resp) ==
    IF resp.kind # "array" \/ ~(file.exists /\ file.readable)
    THEN [ok |-> FALSE, tag_set |-> {}]
    ELSE [ok |-> TRUE,
          tag_set |-> merge_all_tags(resp.entries, read_known_tags(file))]

\* mutant: the known set of the start is the file's, without the tags fetched
fetch_all_repo_file_only(file, resp) ==
    IF resp.kind # "array"
    THEN [ok |-> FALSE, tag_set |-> {}]
    ELSE [ok |-> TRUE, tag_set |-> read_known_tags(file)]

\* fetch_all_tags, one repository: read the file, fetch, merge
fetch_all_repo(file, resp) ==
    IF resp.kind # "array"
    THEN [ok |-> FALSE, tag_set |-> {}]
    ELSE [ok |-> TRUE,
          tag_set |-> merge_all_tags(resp.entries, read_known_tags(file))]

FetchAllBitcoin ==
    /\ pc = "start_bitcoin"
    /\ \E resp \in Responses :
          LET r == fetch_all_repo(known_tags_bitcoin, resp)
          IN  IF r.ok
              THEN /\ known_tags_bitcoin' \in write_known_tags(r.tag_set)
                   /\ seen_tags_bitcoin' = r.tag_set
                   /\ pc' = "start_sigs"
                   /\ fetched' = tag_names(resp.entries)
              ELSE /\ pc' = "failed"
                   /\ fetched' = <<>>
                   /\ UNCHANGED <<known_tags_bitcoin, seen_tags_bitcoin>>
    /\ UNCHANGED <<seen_tags_sigs, in_progress, known_tags_sigs, new_tags, idx,
                   result, sigint_ready, sigterm_ready, stop_cause, cycles,
                   dispatched, succeeded, warned, ip_before, sig_in_body,
                   fn_in, fn_out>>

\* mutant: run_watcher resumes the tags the files show as built but unsigned
initial_in_progress_resumed(file_bitcoin, file_sigs) ==
    read_known_tags(file_bitcoin) \ read_known_tags(file_sigs)

\* run_watcher's `let mut in_progress = HashSet::new()`, whatever is on disk
initial_in_progress(file_bitcoin, file_sigs) == {}

\* the second repository of fetch_all_tags; run_watcher then starts with an
\* empty in-progress set and enters its loop
FetchAllSigs ==
    /\ pc = "start_sigs"
    /\ \E resp \in Responses :
          LET r == fetch_all_repo(known_tags_sigs, resp)
          IN  IF r.ok
              THEN /\ known_tags_sigs' \in write_known_tags(r.tag_set)
                   /\ seen_tags_sigs' = r.tag_set
                   /\ pc' = "select"
                   /\ fetched' = tag_names(resp.entries)
              ELSE /\ pc' = "failed"
                   /\ fetched' = <<>>
                   /\ UNCHANGED <<known_tags_sigs, seen_tags_sigs>>
    /\ in_progress' = initial_in_progress(known_tags_bitcoin, known_tags_sigs)
    /\ UNCHANGED <<seen_tags_bitcoin, known_tags_bitcoin, new_tags, idx,
                   result, sigint_ready, sigterm_ready, stop_cause, cycles,
                   dispatched, succeeded, warned, ip_before, sig_in_body,
                   fn_in, fn_out>>

\* --- the select! loop of run_watcher

\* select! is polled for the first time and no branch is ready: the two
\* sleep(poll_interval) futures are new, and no signal is waiting
Pend ==
    /\ pc = "select"
    /\ ~sigint_ready
    /\ ~sigterm_ready
    /\ pc' = "wait"
    /\ result' = "none"
    /\ UNCHANGED <<seen_tags_bitcoin, seen_tags_sigs, in_progress,
                   known_tags_bitcoin, known_tags_sigs, new_tags, idx,
                   sigint_ready, sigterm_ready, stop_cause, cycles, dispatched,
                   succeeded, warned, ip_before, sig_in_body,
                   fetched, fn_in, fn_out>>

\* mutant: the branch body is spawned as a task of its own, so a sleep can
\* fire and start a body while another one is still running
StartCycle_spawned(first) ==
    /\ pc \in {"wait"} \cup BodyPcs
    /\ cycles < MaxCycles
    /\ pc' = first
    /\ sigint_ready' = FALSE
    /\ cycles' = cycles + 1
    /\ ip_before' = in_progress
    /\ UNCHANGED <<seen_tags_bitcoin, seen_tags_sigs, in_progress,
                   known_tags_bitcoin, known_tags_sigs, new_tags, idx, result,
                   sigterm_ready, stop_cause, dispatched, succeeded, warned,
                   sig_in_body, fetched, fn_in, fn_out>>

\* a sleep is over and select! takes its branch: the other futures, the
\* ctrl_c() one included, are dropped before the branch body runs
StartCycle(first) ==
    /\ pc = "wait"
    /\ cycles < MaxCycles
    /\ pc' = first
    /\ sigint_ready' = FALSE
    /\ cycles' = cycles + 1
    /\ ip_before' = in_progress
    /\ UNCHANGED <<seen_tags_bitcoin, seen_tags_sigs, in_progress,
                   known_tags_bitcoin, known_tags_sigs, new_tags, idx, result,
                   sigterm_ready, stop_cause, dispatched, succeeded, warned,
                   sig_in_body, fetched, fn_in, fn_out>>

StartCycleA == StartCycle("A_fetch")

StartCycleB == StartCycle("B_fetch")

\* where a cycle goes once check_for_new_tags has returned
after_fetch(r, loop_pc, done_pc) ==
    IF r.ok /\ r.new_tags # <<>> THEN loop_pc ELSE done_pc

fetch_result(r) ==
    IF ~r.ok THEN "fetch_err" ELSE IF r.new_tags = <<>> THEN "ok" ELSE "none"

\* the tag names of a fetched array, in the order the API returned them
fetch_order(r, resp) ==
    IF ~r.ok THEN <<>>
    ELSE [i \in 1..Len(resp.entries) |->
             trim_start_matches(resp.entries[i].ref, RefPrefix)]

\* check_and_process_bitcoin_tags up to its for loop
FetchA ==
    /\ pc = "A_fetch"
    /\ \E resp \in Responses :
          LET r == check_for_new_tags(seen_tags_bitcoin, resp)
          IN  /\ seen_tags_bitcoin' = r.seen_tags
              /\ new_tags' = r.new_tags
              /\ idx' = IF r.ok /\ r.new_tags # <<>> THEN 1 ELSE 0
              /\ result' = fetch_result(r)
              /\ pc' = after_fetch(r, "A_build", "A_done")
              /\ fetched' = fetch_order(r, resp)
    /\ UNCHANGED <<seen_tags_sigs, in_progress, known_tags_bitcoin,
                   known_tags_sigs, sigint_ready, sigterm_ready, stop_cause,
                   cycles, dispatched, succeeded, warned, ip_before,
                   sig_in_body, fn_in, fn_out>>

\* check_and_process_sigs_tags up to its for loop
FetchB ==
    /\ pc = "B_fetch"
    /\ \E resp \in Responses :
          LET r == check_for_new_tags(seen_tags_sigs, resp)
          IN  /\ seen_tags_sigs' = r.seen_tags
              /\ new_tags' = r.new_tags
              /\ idx' = IF r.ok /\ r.new_tags # <<>> THEN 1 ELSE 0
              /\ result' = fetch_result(r)
              /\ pc' = after_fetch(r, "B_tag", "B_done")
              /\ fetched' = fetch_order(r, resp)
    /\ UNCHANGED <<seen_tags_bitcoin, in_progress, known_tags_bitcoin,
                   known_tags_sigs, sigint_ready, sigterm_ready, stop_cause,
                   cycles, dispatched, succeeded, warned, ip_before,
                   sig_in_body, fn_in, fn_out>>

\* create_builder(config, args): whether a Builder could be made
create_builder_outcomes == BOOLEAN

\* Builder::run: Ok or Err of the stage's external commands
run_outcomes == BOOLEAN

Dispatch(d, action, tag) == [d EXCEPT ![action][tag] = @ + 1]

\* mutant: the Build error is only logged and the attestation still runs
after_build_logged(ran_ok) == "A_attest"

\* the `?` on the Build run: an Err leaves the for loop and the function
after_build(ran_ok) == IF ran_ok THEN "A_attest" ELSE "A_done"

\* the for loop of cycle A, first half: Build for new_tags[idx]
BuildA ==
    /\ pc = "A_build"
    /\ LET tag == new_tags[idx]
       IN  \E created \in create_builder_outcomes, ran_ok \in run_outcomes :
              IF ~created
              THEN /\ pc' = "A_done"
                   /\ result' = "create_err"
                   /\ UNCHANGED <<in_progress, dispatched, succeeded>>
              ELSE /\ in_progress' = in_progress \cup {tag}
                   /\ dispatched' = Dispatch(dispatched, "Build", tag)
                   /\ succeeded' = IF ran_ok THEN succeeded \cup {<<"Build", tag>>}
                                   ELSE succeeded
                   /\ pc' = after_build(ran_ok)
                   /\ result' = IF ran_ok THEN result ELSE "run_err"
    /\ UNCHANGED <<seen_tags_bitcoin, seen_tags_sigs, known_tags_bitcoin,
                   known_tags_sigs, new_tags, idx, sigint_ready, sigterm_ready,
                   stop_cause, cycles, warned, ip_before, sig_in_body,
                   fetched, fn_in, fn_out>>

\* the for loop of cycle A, second half: NonCodeSigned for new_tags[idx]
AttestA ==
    /\ pc = "A_attest"
    /\ LET tag == new_tags[idx]
           more == idx < Len(new_tags)
       IN  \E created \in create_builder_outcomes, ran_ok \in run_outcomes :
              IF ~created
              THEN /\ pc' = "A_done"
                   /\ result' = "create_err"
                   /\ UNCHANGED <<dispatched, succeeded, idx>>
              ELSE /\ dispatched' = Dispatch(dispatched, "NonCodeSigned", tag)
                   /\ succeeded' = IF ran_ok
                                   THEN succeeded \cup {<<"NonCodeSigned", tag>>}
                                   ELSE succeeded
                   /\ pc' = IF ran_ok /\ more THEN "A_build" ELSE "A_done"
                   /\ idx' = IF ran_ok /\ more THEN idx + 1 ELSE idx
                   /\ result' = IF ~ran_ok THEN "run_err"
                                ELSE IF more THEN result ELSE "ok"
    /\ UNCHANGED <<seen_tags_bitcoin, seen_tags_sigs, in_progress,
                   known_tags_bitcoin, known_tags_sigs, new_tags, sigint_ready,
                   sigterm_ready, stop_cause, cycles, warned, ip_before,
                   sig_in_body, fetched, fn_in, fn_out>>

\* mutant: the tag is removed whatever the CodeSigned run returned
after_codesign_always(ip, tag, ran_ok) == ip \ {tag}

\* in_progress after the CodeSigned run of tag: removed once run returned Ok
after_codesign(ip, tag, ran_ok) == IF ran_ok THEN ip \ {tag} ELSE ip

\* mutant: the else branch takes the tag into in_progress for a later try
after_warning_adopted(ip, tag) == ip \cup {tag}

\* in_progress after the else branch of cycle B: it only logs its warning
after_warning(ip, tag) == ip

\* mutant: the else branch makes the codesigning attempt its TODO considers
SigsTag_attempting ==
    /\ pc = "B_tag"
    /\ LET tag == new_tags[idx]
           more == idx < Len(new_tags)
       IN  IF tag \in in_progress
           THEN \E created \in create_builder_outcomes, ran_ok \in run_outcomes :
                  IF ~created
                  THEN /\ pc' = "B_done"
                       /\ result' = "create_err"
                       /\ UNCHANGED <<in_progress, dispatched, succeeded, idx, warned>>
                  ELSE /\ dispatched' = Dispatch(dispatched, "CodeSigned", tag)
                       /\ in_progress' = after_codesign(in_progress, tag, ran_ok)
                       /\ succeeded' = IF ran_ok
                                       THEN succeeded \cup {<<"CodeSigned", tag>>}
                                       ELSE succeeded
                       /\ pc' = IF ran_ok /\ more THEN "B_tag" ELSE "B_done"
                       /\ idx' = IF ran_ok /\ more THEN idx + 1 ELSE idx
                       /\ result' = IF ~ran_ok THEN "run_err"
                                    ELSE IF more THEN result ELSE "ok"
                       /\ UNCHANGED warned
           ELSE /\ warned' = warned \cup {tag}
                /\ pc' = IF more THEN "B_tag" ELSE "B_done"
                /\ idx' = IF more THEN idx + 1 ELSE idx
                /\ result' = IF more THEN result ELSE "ok"
                /\ in_progress' = after_warning(in_progress, tag)
                /\ dispatched' = Dispatch(dispatched, "CodeSigned", tag)
                /\ UNCHANGED succeeded
    /\ UNCHANGED <<seen_tags_bitcoin, seen_tags_sigs, known_tags_bitcoin,
                   known_tags_sigs, new_tags, sigint_ready, sigterm_ready,
                   stop_cause, cycles, ip_before, sig_in_body,
                   fetched, fn_in, fn_out>>

\* the for loop of cycle B for new_tags[idx]
SigsTag ==
    /\ pc = "B_tag"
    /\ LET tag == new_tags[idx]
           more == idx < Len(new_tags)
       IN  IF tag \in in_progress
           THEN \E created \in create_builder_outcomes, ran_ok \in run_outcomes :
                  IF ~created
                  THEN /\ pc' = "B_done"
                       /\ result' = "create_err"
                       /\ UNCHANGED <<in_progress, dispatched, succeeded, idx, warned>>
                  ELSE /\ dispatched' = Dispatch(dispatched, "CodeSigned", tag)
                       /\ in_progress' = after_codesign(in_progress, tag, ran_ok)
                       /\ succeeded' = IF ran_ok
                                       THEN succeeded \cup {<<"CodeSigned", tag>>}
                                       ELSE succeeded
                       /\ pc' = IF ran_ok /\ more THEN "B_tag" ELSE "B_done"
                       /\ idx' = IF ran_ok /\ more THEN idx + 1 ELSE idx
                       /\ result' = IF ~ran_ok THEN "run_err"
                                    ELSE IF more THEN result ELSE "ok"
                       /\ UNCHANGED warned
           ELSE /\ warned' = warned \cup {tag}
                /\ pc' = IF more THEN "B_tag" ELSE "B_done"
                /\ idx' = IF more THEN idx + 1 ELSE idx
                /\ result' = IF more THEN result ELSE "ok"
                /\ in_progress' = after_warning(in_progress, tag)
                /\ UNCHANGED <<dispatched, succeeded>>
    /\ UNCHANGED <<seen_tags_bitcoin, seen_tags_sigs, known_tags_bitcoin,
                   known_tags_sigs, new_tags, sigint_ready, sigterm_ready,
                   stop_cause, cycles, ip_before, sig_in_body,
                   fetched, fn_in, fn_out>>

\* mutant: the cycle's error is propagated with `?` out of run_watcher
on_cycle_result_propagated(res) ==
    IF res \in {"fetch_err", "create_err", "run_err"} THEN "stopped" ELSE "select"

\* run_watcher's `if let Err(e) = ... { error!(..) }`: the loop goes on
on_cycle_result(res) == "select"

\* the branch body is over; the loop enters select! again
EndCycle ==
    /\ pc \in {"A_done", "B_done"}
    /\ pc' = on_cycle_result(result)
    /\ stop_cause' = IF pc' = "stopped" THEN "error" ELSE stop_cause
    /\ new_tags' = <<>>
    /\ idx' = 0
    /\ ip_before' = {}
    /\ fetched' = <<>>
    /\ UNCHANGED <<seen_tags_bitcoin, seen_tags_sigs, in_progress,
                   known_tags_bitcoin, known_tags_sigs, result, sigint_ready,
                   sigterm_ready, cycles, dispatched, succeeded, warned,
                   sig_in_body, fn_in, fn_out>>

\* --- signals

\* SIGINT reaches the process.  The runtime's handler catches it and notifies
\* the ctrl_c() listeners that exist when it broadcasts: the listener of the
\* waiting select!, or, when a body is running, none (the signal is lost)
\* unless the broadcast comes only after the next select! has subscribed.
DeliverSIGINT ==
    /\ pc \in BodyPcs \cup {"wait"}
    /\ sigint_ready' \in (IF pc = "wait" THEN {TRUE} ELSE {FALSE, TRUE})
    /\ sig_in_body' = (sig_in_body \/ pc \in BodyPcs)
    /\ <<sigint_ready', sig_in_body'>> # <<sigint_ready, sig_in_body>>
    /\ UNCHANGED <<pc, seen_tags_bitcoin, seen_tags_sigs, in_progress,
                   known_tags_bitcoin, known_tags_sigs, new_tags, idx, result,
                   sigterm_ready, stop_cause, cycles, dispatched, succeeded,
                   warned, ip_before, fetched, fn_in, fn_out>>

\* SIGTERM reaches the process: sigterm lives across the loop and keeps it
DeliverSIGTERM ==
    /\ pc \in BodyPcs \cup {"wait"}
    /\ ~sigterm_ready
    /\ sigterm_ready' = TRUE
    /\ sig_in_body' = (sig_in_body \/ pc \in BodyPcs)
    /\ UNCHANGED <<pc, seen_tags_bitcoin, seen_tags_sigs, in_progress,
                   known_tags_bitcoin, known_tags_sigs, new_tags, idx, result,
                   sigint_ready, stop_cause, cycles, dispatched, succeeded,
                   warned, ip_before, fetched, fn_in, fn_out>>

Exit(cause) ==
    /\ pc \in {"select", "wait"}
    /\ pc' = "stopped"
    /\ stop_cause' = cause
    /\ UNCHANGED <<seen_tags_bitcoin, seen_tags_sigs, in_progress,
                   known_tags_bitcoin, known_tags_sigs, new_tags, idx, result,
                   sigint_ready, sigterm_ready, cycles, dispatched, succeeded,
                   warned, ip_before, sig_in_body, fetched, fn_in, fn_out>>

\* select! takes the ctrl_c() branch
ExitCtrlC == sigint_ready /\ Exit("SIGINT")

\* select! takes the sigterm.recv() branch
ExitSigterm == sigterm_ready /\ Exit("SIGTERM")

Next ==
    \/ FetchAllBitcoin
    \/ FetchAllSigs
    \/ Pend
    \/ StartCycleA
    \/ StartCycleB
    \/ FetchA
    \/ BuildA
    \/ AttestA
    \/ FetchB
    \/ SigsTag
    \/ EndCycle
    \/ DeliverSIGINT
    \/ DeliverSIGTERM
    \/ ExitCtrlC
    \/ ExitSigterm

Spec == Init /\ [][Next]_vars

TypeOK ==
    /\ pc \in {"start_bitcoin", "start_sigs", "failed", "select", "wait", "stopped"}
              \cup BodyPcs
    /\ seen_tags_bitcoin \subseteq Tags
    /\ seen_tags_sigs \subseteq Tags
    /\ in_progress \subseteq Tags
    /\ result \in {"none", "ok", "fetch_err", "create_err", "run_err"}
    /\ cycles \in 0..MaxCycles

\* ----------------------------------------------------------------- claims

Ran(a, t) == dispatched[a][t] > 0

Ok(a, t) == <<a, t>> \in succeeded

Failed(a, t) == Ran(a, t) /\ ~Ok(a, t)

\* C1: CodeSigned is dispatched for a tag only if Build and NonCodeSigned
\* have both completed successfully for that tag in this process lifetime.
C1_CodesignOnlyAfterBuildAndAttest ==
    \A t \in Tags :
        Ran("CodeSigned", t) => Ok("Build", t) /\ Ok("NonCodeSigned", t)

\* C2: when a cycle B ends, every tag it newly observed that cycle A had put
\* in the in-progress set has been dispatched to CodeSigned exactly once, and
\* is out of the in-progress set if that dispatch succeeded, whatever happened
\* to the other newly-seen tags of the fetch.
C2_CorrelatedTagCodesignedOnce ==
    (pc = "B_done" /\ result \in {"ok", "run_err"}) =>
        \A t \in Range(new_tags) \cap ip_before :
            /\ dispatched["CodeSigned"][t] = 1
            /\ Ok("CodeSigned", t) => t \notin in_progress

\* C3: when a cycle B ends, every tag it newly observed that was not in the
\* in-progress set has no CodeSigned dispatch, has its warning recorded, and
\* has not entered the in-progress set.
C3_UncorrelatedTagWarned ==
    (pc = "B_done" /\ result \in {"ok", "run_err"}) =>
        \A t \in Range(new_tags) \ ip_before :
            /\ dispatched["CodeSigned"][t] = 0
            /\ t \in warned
            /\ t \notin in_progress

\* C4: when a cycle A ends, every newly-seen tag that follows, in fetch
\* order, a tag whose Build failed is in the in-progress set and has been
\* dispatched to Build.
C4_BuildFailureAbortsOneTagOnly ==
    pc = "A_done" =>
        \A i, j \in 1..Len(new_tags) :
            (i < j /\ Failed("Build", new_tags[i])) =>
                /\ new_tags[j] \in in_progress
                /\ dispatched["Build"][new_tags[j]] = 1

C7_FileEqualsKnownSetAfterCycle ==
    /\ (pc = "A_done" /\ result # "fetch_err") =>
          (known_tags_bitcoin.exists
           /\ Range(known_tags_bitcoin.lines) = seen_tags_bitcoin)
    /\ (pc = "B_done" /\ result # "fetch_err") =>
          (known_tags_sigs.exists
           /\ Range(known_tags_sigs.lines) = seen_tags_sigs)

\* C8: a cycle whose fetch fails changes nothing: no stage is dispatched and
\* the known sets, the in-progress set and the known-tags files stay as
\* they were.
C8_FailedFetchChangesNothing ==
    [][(pc \in {"A_fetch", "B_fetch"} /\ result' = "fetch_err") =>
          UNCHANGED <<seen_tags_bitcoin, seen_tags_sigs, in_progress,
                      known_tags_bitcoin, known_tags_sigs, dispatched>>]_vars

\* C9: a cycle body that ended, with an error or not, is followed by the
\* loop's select!, where both cycles can be started again; run_watcher
\* leaves the loop only from select!, on a SIGINT or SIGTERM it received.
C9_OnlySignalsStopTheLoop ==
    /\ [](pc = "wait" /\ cycles < MaxCycles =>
            ENABLED StartCycleA /\ ENABLED StartCycleB)
    /\ [][/\ (pc \in {"A_done", "B_done"} /\ pc' # pc) => pc' = "select"
          /\ (pc # "stopped" /\ pc' = "stopped") =>
                /\ pc \in {"select", "wait"}
                /\ \/ stop_cause' = "SIGINT" /\ sigint_ready
                   \/ stop_cause' = "SIGTERM" /\ sigterm_ready]_vars

C9_Witness ==
    /\ pc = "wait"
    /\ cycles = 1
    /\ cycles < MaxCycles
    /\ \E t \in Tags : Failed("Build", t)

\* C10: a shutdown signal that arrives while a cycle body is running does
\* not interrupt that body, and no further cycle body starts after it.
C10_SignalInBodyStopsBeforeNextCycle ==
    [][/\ (pc \in BodyPcs /\ pc' # pc) => pc' \in BodyPcs \cup {"select"}
       /\ (sig_in_body /\ pc \in {"select", "wait"}) =>
             pc' \notin {"A_fetch", "B_fetch"}]_vars

\* ---------------------------------------------------------------- C11

ACyclePcs == {"A_fetch", "A_build", "A_attest", "A_done"}

BCyclePcs == {"B_fetch", "B_tag", "B_done"}

\* C11: the bodies of cycle A and cycle B never interleave.  A body starts
\* only from the waiting select!, every step of a running body stays in that
\* body until its end hands control back to select!, and the loop waits again
\* only after that; one step makes at most one Builder::run call, and only
\* inside a body.
C11_BodiesNeverInterleave ==
    [][/\ (pc \in ACyclePcs => pc' \in ACyclePcs \cup {"select"})
       /\ (pc \in BCyclePcs => pc' \in BCyclePcs \cup {"select"})
       /\ (pc \in BodyPcs /\ pc' = "select" => pc \in {"A_done", "B_done"})
       /\ (pc' \in {"A_fetch", "B_fetch"} /\ pc' # pc => pc = "wait")
       /\ (pc' = "wait" => pc \in {"select", "wait"})
       /\ (dispatched' # dispatched =>
             /\ pc \in {"A_build", "A_attest", "B_tag"}
             /\ \E a \in Actions, t \in Tags :
                   dispatched' = Dispatch(dispatched, a, t))]_vars

\* a second body is running after the first one ran to its end
C11_Witness ==
    /\ cycles = 2
    /\ pc \in {"A_build", "A_attest", "B_tag"}
    /\ \E a \in Actions, t \in Tags : dispatched[a][t] > 0

\* ---------------------------------------------------------------- C12

C13_CycleFrames ==
    [][/\ (pc \in ACyclePcs =>
             /\ seen_tags_sigs' = seen_tags_sigs
             /\ in_progress \subseteq in_progress')
       /\ (pc \in BCyclePcs =>
             /\ seen_tags_bitcoin' = seen_tags_bitcoin
             /\ in_progress' \subseteq in_progress)
       /\ (pc \in {"select", "wait", "stopped"} =>
             /\ seen_tags_bitcoin' = seen_tags_bitcoin
             /\ seen_tags_sigs' = seen_tags_sigs
             /\ in_progress' = in_progress)]_vars

\* cycle A has added a tag whose stage failed, and a later cycle B has
\* ended with an error of its own while the tag is still in progress
C13_Witness ==
    /\ pc = "B_done"
    /\ result \in {"fetch_err", "create_err", "run_err"}
    /\ in_progress # {}
    /\ \E t \in Tags : Failed("Build", t) \/ Failed("NonCodeSigned", t)

\* ---------------------------------------------------------------- C14

\* the tags the source repository's file names: those an earlier run left
\* there, and those the startup fetch added; the cycles never write the file
KnownAtStart == read_known_tags(known_tags_bitcoin)

\* C14: run_watcher starts with an empty in-progress set whatever the files
\* of an earlier run hold, so a tag that was known when the process started
\* (built and attested before the restart) never enters in_progress and is
\* never dispatched to CodeSigned when its signatures tag is seen later.
C14_NothingInProgressAcrossRestart ==
    /\ (pc = "select" /\ cycles = 0 => in_progress = {})
    /\ (pc \notin {"start_bitcoin", "start_sigs", "failed"} =>
          \A t \in KnownAtStart :
              /\ t \notin in_progress
              /\ dispatched["CodeSigned"][t] = 0)

\* after a restart with a non-empty file, cycle B newly observed the
\* signatures tag of a tag known at the start, and only warned
C14_Witness ==
    /\ pc = "B_done"
    /\ \E t \in KnownAtStart :
          /\ t \in Range(new_tags)
          /\ t \in warned
          /\ dispatched["CodeSigned"][t] = 0

\* ---------------------------------------------------------------- C15

\* where x first stands in seq
FirstPos(seq, x) ==
    CHOOSE i \in 1..Len(seq) : seq[i] = x /\ \A j \in 1..(i - 1) : seq[j] # x

\* the stages the running cycle has dispatched for tag t are over
StagesDone(t) ==
    IF pc \in ACyclePcs
    THEN dispatched["Build"][t] = 1 /\ dispatched["NonCodeSigned"][t] = 1
    ELSE dispatched["CodeSigned"][t] = 1 \/ t \in warned

\* the running cycle has dispatched no stage for tag t
NoStageYet(t) ==
    IF pc \in ACyclePcs
    THEN dispatched["Build"][t] = 0 /\ dispatched["NonCodeSigned"][t] = 0
    ELSE dispatched["CodeSigned"][t] = 0

\* C15: inside one cycle the newly seen tags are taken in the order the tag
\* source returned them: new_tags keeps the fetch order, and while the loop
\* is at position idx every stage of the tags before idx has been dispatched
\* and no stage of a tag after idx has.
C15_TagsProcessedInFetchOrder ==
    pc \in {"A_build", "A_attest", "B_tag"} =>
      /\ Range(new_tags) \subseteq Range(fetched)
      /\ \A i, j \in 1..Len(new_tags) :
            i < j => FirstPos(fetched, new_tags[i]) < FirstPos(fetched, new_tags[j])
      /\ \A j \in 1..Len(new_tags) :
            /\ (j < idx => StagesDone(new_tags[j]))
            /\ (j > idx => NoStageYet(new_tags[j]))

\* the loop has reached the second of two new tags that were fetched against
\* their version order
C15_Witness ==
    /\ pc \in {"A_attest", "B_tag"}
    /\ idx = 2
    /\ compare_versions(new_tags[1], new_tags[2]) = "Greater"
    /\ StagesDone(new_tags[1])

\* ------------------------------------------- check_for_new_tags on its own

\* a tag name that stands for "no tag" in the tooling around the repository
NoTagSentinel == <<"n", "o", "n", "e">>

FnTags == Tags \cup {NoTagSentinel}

FnResponses ==
    {[kind |-> "curl_failed", entries |-> <<>>],
     [kind |-> "not_json_array", entries |-> <<>>]}
    \cup {[kind |-> "array", entries |-> es] :
            es \in SeqsUpTo({RefEntry(t) : t \in FnTags} \cup {NoRefEntry},
                            MaxFetchLen)}

\* the watcher's variables while a function is called on its own
WatcherIdle ==
    /\ seen_tags_bitcoin = {}
    /\ seen_tags_sigs = {}
    /\ in_progress = {}
    /\ known_tags_bitcoin = NoFile
    /\ known_tags_sigs = NoFile
    /\ new_tags = <<>>
    /\ idx = 0
    /\ result = "none"
    /\ sigint_ready = FALSE
    /\ sigterm_ready = FALSE
    /\ stop_cause = "none"
    /\ cycles = 0
    /\ dispatched = [a \in Actions |-> [t \in Tags |-> 0]]
    /\ succeeded = {}
    /\ warned = {}
    /\ ip_before = {}
    /\ sig_in_body = FALSE
    /\ fetched = <<>>

watcher_vars ==
    <<seen_tags_bitcoin, seen_tags_sigs, in_progress, known_tags_bitcoin,
      known_tags_sigs, new_tags, idx, result, sigint_ready, sigterm_ready,
      stop_cause, cycles, dispatched, succeeded, warned, ip_before,
      sig_in_body, fetched>>

\* a caller's known set and the answers of two fetches in a row
InitFetch ==
    /\ pc = "fetch_call"
    /\ fn_in \in [seen : SUBSET FnTags, first : FnResponses,
                  second : FnResponses]
    /\ fn_out = <<>>
    /\ WatcherIdle

\* check_for_new_tags(&mut seen_tags, ..) with the first answer
CallCheckForNewTags ==
    /\ pc = "fetch_call"
    /\ fn_out' = <<check_for_new_tags(fn_in.seen, fn_in.first)>>
    /\ pc' = "fetch_once"
    /\ UNCHANGED <<fn_in, watcher_vars>>

\* the next call on the same known set, with the second answer
CallCheckForNewTagsAgain ==
    /\ pc = "fetch_once"
    /\ fn_out' = Append(fn_out,
                    check_for_new_tags(fn_out[1].seen_tags, fn_in.second))
    /\ pc' = "fetch_twice"
    /\ UNCHANGED <<fn_in, watcher_vars>>

NextFetch == CallCheckForNewTags \/ CallCheckForNewTagsAgain

SpecFetch == InitFetch /\ [][NextFetch]_vars

\* ---------------------------------------------------------------- C16

\* every element of the answer is an object with a string ref
AllRefs(resp) ==
    /\ resp.kind = "array"
    /\ \A i \in 1..Len(resp.entries) : resp.entries[i].is_str

\* the tag names an answer lists, in its order
FetchNames(resp) ==
    [i \in 1..Len(resp.entries) |->
        CHOOSE t \in FnTags : resp.entries[i] = RefEntry(t)]

\* new is exactly the names not in known, each once, in the order of names
ExactlyNew(new, known, names) ==
    /\ Range(new) = Range(names) \ known
    /\ \A i, j \in 1..Len(new) :
          i < j => FirstPos(names, new[i]) < FirstPos(names, new[j])

\* C16: check_for_new_tags returns exactly the tags of the fetch that were
\* not known, each once and in fetch order, and leaves the known set as the
\* old one united with the fetched tags; a second call with the same fetch
\* returns nothing; {v27.1} followed by {v27.1, v27.2} reports only v27.2.
C16_CheckForNewTagsDiff ==
    /\ (pc \in {"fetch_once", "fetch_twice"} /\ AllRefs(fn_in.first) =>
          /\ fn_out[1].ok
          /\ ExactlyNew(fn_out[1].new_tags, fn_in.seen, FetchNames(fn_in.first))
          /\ fn_out[1].seen_tags =
                fn_in.seen \cup Range(FetchNames(fn_in.first)))
    /\ (pc = "fetch_twice" /\ AllRefs(fn_in.first) /\ AllRefs(fn_in.second) =>
          /\ fn_out[2].ok
          /\ ExactlyNew(fn_out[2].new_tags, fn_out[1].seen_tags,
                        FetchNames(fn_in.second))
          /\ fn_out[2].seen_tags =
                fn_out[1].seen_tags \cup Range(FetchNames(fn_in.second))
          /\ (fn_in.second = fn_in.first => fn_out[2].new_tags = <<>>))
    /\ (/\ pc = "fetch_twice"
        /\ fn_in.seen = {}
        /\ fn_in.first.entries = <<RefEntry(v27_1)>>
        /\ fn_in.second.entries = <<RefEntry(v27_1), RefEntry(v27_2)>>
        => fn_out[2].new_tags = <<v27_2>>)

\* {v27.1} was fetched, then {v27.1, v27.2}, and the second call gave v27.2
C16_Witness ==
    /\ pc = "fetch_twice"
    /\ fn_in.seen = {}
    /\ fn_in.first.entries = <<RefEntry(v27_1)>>
    /\ fn_in.second.entries = <<RefEntry(v27_1), RefEntry(v27_2)>>
    /\ fn_out[1].new_tags = <<v27_1>>
    /\ fn_out[2].new_tags = <<v27_2>>

\* ---------------------------------------------------------------- C17

\* C17: the known sets only grow.  No step takes a tag out of either set,
\* whether a fetch fails or a stage fails, and the startup load keeps every
\* tag the files of an earlier run name.
C17_KnownSetsOnlyGrow ==
    [][/\ seen_tags_bitcoin \subseteq seen_tags_bitcoin'
       /\ seen_tags_sigs \subseteq seen_tags_sigs'
       /\ (pc = "start_bitcoin" /\ pc' = "start_sigs" =>
             read_known_tags(known_tags_bitcoin) \subseteq seen_tags_bitcoin')
       /\ (pc = "start_sigs" /\ pc' = "select" =>
             read_known_tags(known_tags_sigs) \subseteq seen_tags_sigs')]_vars

\* both sets hold tags, a stage has failed, and the fetch of the running
\* cycle has failed as well
C17_Witness ==
    /\ pc \in {"A_done", "B_done"}
    /\ result = "fetch_err"
    /\ seen_tags_bitcoin # {}
    /\ seen_tags_sigs # {}
    /\ \E a \in Actions, t \in Tags : Failed(a, t)

\* ---------------------------------------------------------------- C18

\* C18: the "no tag" sentinel is filtered out when a fetch returns it: it is
\* not inserted into the known set and not reported as newly seen (what is
\* reported is what cycle A dispatches).
C18_SentinelNeverIngested ==
    NoTagSentinel \notin fn_in.seen =>
        \A k \in 1..Len(fn_out) :
            /\ NoTagSentinel \notin fn_out[k].seen_tags
            /\ NoTagSentinel \notin Range(fn_out[k].new_tags)

\* ---------------------------------------------- compare_versions on its own

\* the tag strings of test_compare_versions
v0_21_0 == <<"v", "0", ".", "2", "1", ".", "0">>

v0_28_0rc1 == <<"v", "0", ".", "2", "8", ".", "0", "r", "c", "1">>

v0_28_0rc2 == <<"v", "0", ".", "2", "8", ".", "0", "r", "c", "2">>

v0_28_0 == <<"v", "0", ".", "2", "8", ".", "0">>

v0_28_1 == <<"v", "0", ".", "2", "8", ".", "1">>

v1_0_0 == <<"v", "1", ".", "0", ".", "0">>

\* a tag whose prefix character is doubled
vv22_0 == <<"v", "v", "2", "2", ".", "0">>

\* a first component of 2^32, one more than a u32 holds
v4294967296_0 ==
    <<"v", "4", "2", "9", "4", "9", "6", "7", "2", "9", "6", ".", "0">>

\* an rc suffix that is no number
v22_0rcx == <<"v", "2", "2", ".", "0", "r", "c", "x">>

\* the tags of the tests, and tag strings around them: no prefix, a doubled
\* prefix, one to four components, the empty string, an rc marker without
\* a number or with something else, a component that is no number, and a
\* component too large for a u32
VersionStrings ==
    {v0_21_0, v0_28_0rc1, v0_28_0rc2, v0_28_0,
     v0_28_1, v1_0_0, vv22_0, v4294967296_0, v22_0rcx,
     <<"2", "2", ".", "0">>,
     <<"v", "2", "2", ".", "0">>,
     <<"v", "2", "2">>,
     <<>>,
     <<"v", "2", "2", ".", "0", "r", "c">>,
     <<"v", "2", "2", ".", "x">>,
     <<"v", "2", "2", ".", "0", ".", "0", ".", "1">>,
     <<"v", "2", "1", ".", "0">>}

\* three tag strings to compare with each other
InitCmp ==
    /\ pc = "cmp_call"
    /\ fn_in \in [a : VersionStrings, b : VersionStrings, c : VersionStrings]
    /\ fn_out = <<>>
    /\ WatcherIdle

\* compare_versions on each pair the order laws speak of
CallCompareVersions ==
    /\ pc = "cmp_call"
    /\ fn_out' = [ab |-> compare_versions(fn_in.a, fn_in.b),
                  ba |-> compare_versions(fn_in.b, fn_in.a),
                  aa |-> compare_versions(fn_in.a, fn_in.a),
                  bc |-> compare_versions(fn_in.b, fn_in.c),
                  ac |-> compare_versions(fn_in.a, fn_in.c)]
    /\ pc' = "cmp_done"
    /\ UNCHANGED <<fn_in, watcher_vars>>

NextCmp == CallCompareVersions

SpecCmp == InitCmp /\ [][NextCmp]_vars

\* ---------------------------------------------------------------- C19

Reverse(o) ==
    IF o = "Less" THEN "Greater" ELSE IF o = "Greater" THEN "Less" ELSE "Equal"

\* C19: compare_versions orders the tag strings totally: each pair gets one
\* of Less, Equal and Greater, compare(b, a) is the reverse of compare(a, b),
\* compare(a, a) is Equal, a <= b and b <= c give a <= c, and Equal is
\* transitive.
C19_CompareVersionsTotalOrder ==
    pc = "cmp_done" =>
      /\ fn_out.ab \in {"Less", "Equal", "Greater"}
      /\ fn_out.ba = Reverse(fn_out.ab)
      /\ fn_out.aa = "Equal"
      /\ (fn_out.ab # "Greater" /\ fn_out.bc # "Greater" =>
            fn_out.ac # "Greater")
      /\ (fn_out.ab = "Equal" /\ fn_out.bc = "Equal" => fn_out.ac = "Equal")

\* three different tag strings in a chain: a release candidate, its release,
\* and a later version
C19_Witness ==
    /\ pc = "cmp_done"
    /\ fn_in.a = v0_28_0rc1
    /\ fn_in.b = v0_28_0
    /\ fn_in.c = v1_0_0
    /\ fn_out.ab = "Less"
    /\ fn_out.bc = "Less"
    /\ fn_out.ac = "Less"

\* ---------------------------------------------------------------- C20

\* The reference ordering the comparator is specified by.
\* Step 1: one leading prefix character is stripped, if there is one.
RefStrip(s) == IF s # <<>> /\ Head(s) = "v" THEN Tail(s) ELSE s

\* Steps 2 and 3: the dotted version left of the rc marker as numbers, a
\* component that is no number counting as 0; the rc index right of it
RefParse(s) ==
    LET parts == split(RefStrip(s), <<"r", "c">>)
        comps == split(parts[1], <<".">>)
    IN  [nums |-> [i \in 1..Len(comps) |-> unwrap_or(parse_u32(comps[i]), <<>>)],
         has_rc |-> Len(parts) >= 2,
         rc |-> IF Len(parts) >= 2 THEN parse_u32(parts[2]) ELSE None]

\* the rc part of s, when there is one, is a number
RefDefined(s) == LET p == RefParse(s) IN p.has_rc => p.rc.some

\* Steps 4 to 6
RefCompare(a, b) ==
    LET pa == RefParse(a)
        pb == RefParse(b)
        first == cmp_iter(take(pa.nums, 2), take(pb.nums, 2))
        third == cmp_option(get(pa.nums, 2), get(pb.nums, 2))
    IN  IF first # "Equal" THEN first
        ELSE IF third # "Equal" THEN third
        ELSE IF pa.has_rc /\ ~pb.has_rc THEN "Less"
        ELSE IF ~pa.has_rc /\ pb.has_rc THEN "Greater"
        ELSE IF ~pa.has_rc /\ ~pb.has_rc THEN "Equal"
        ELSE cmp_u32(pa.rc.val, pb.rc.val)

\* C20: compare_versions agrees with the reference ordering for every pair
\* of tags: one leading prefix character stripped, the first two components
\* compared lexicographically, then the third with absent below present,
\* then the rc marker with no rc above any rc and the higher rc above the
\* lower.
C20_AgreesWithReferenceOrdering ==
    pc = "cmp_done" /\ RefDefined(fn_in.a) /\ RefDefined(fn_in.b) =>
        fn_out.ab = RefCompare(fn_in.a, fn_in.b)

\* ---------------------------------------------------------------- C21

RECURSIVE Join(_, _)
Join(pieces, sep) ==
    IF Len(pieces) = 1 THEN pieces[1]
    ELSE pieces[1] \o sep \o Join(Tail(pieces), sep)

\* s with every dotted component left of the rc marker that is no u32
\* written as 0
ZeroFilled(s) ==
    LET parts == split(trim_start_matches(s, <<"v">>), <<"r", "c">>)
        comps == split(parts[1], <<".">>)
        fixed == [i \in 1..Len(comps) |->
                    IF parse_u32(comps[i]).some THEN comps[i] ELSE <<"0">>]
    IN  Join(<<Join(fixed, <<".">>)>> \o Tail(parts), <<"r", "c">>)

\* C21: compare_versions never fails on a malformed tag.  For every pair of
\* strings (empty, with a component that is no number or too large for a
\* u32, with an rc suffix that is no number) it returns an ordering, and the
\* ordering is the one it returns when every such component is written as 0.
C21_MalformedTagsCompare ==
    pc = "cmp_done" =>
      /\ fn_out.ab \in {"Less", "Equal", "Greater"}
      /\ fn_out.ab = compare_versions(ZeroFilled(fn_in.a), ZeroFilled(fn_in.b))

\* a tag whose first component overflows a u32 was compared with a tag whose
\* rc suffix is no number, and the empty string with a non-numeric component
C21_Witness ==
    /\ pc = "cmp_done"
    /\ fn_in.a = v4294967296_0
    /\ fn_in.b = v22_0rcx
    /\ fn_in.c = <<>>
    /\ fn_out.ab = "Less"
    /\ fn_out.bc = "Greater"

\* ------------------------------------------------ the known-tags file on its own

\* two tags of the source repository that compare Equal: a fourth component
\* is not looked at
v0_9_2 == <<"v", "0", ".", "9", ".", "2">>

v0_9_2_1 == <<"v", "0", ".", "9", ".", "2", ".", "1">>

StoreTags == {v0_28_0rc1, v0_28_0, v0_9_2, v0_9_2_1}

\* what is on disk before startup: no file, a file with lines in any
\* order, or a file that cannot be read
StoreFiles ==
    {NoFile}
    \cup {FileOf(ls) : ls \in SeqsUpTo(StoreTags, MaxFetchLen)}
    \cup {UnreadableFile(ls) : ls \in SeqsUpTo(StoreTags, 1)}

StoreResponses ==
    {[kind |-> "curl_failed", entries |-> <<>>],
     [kind |-> "not_json_array", entries |-> <<>>]}
    \cup {[kind |-> "array", entries |-> es] :
            es \in SeqsUpTo({RefEntry(t) : t \in StoreTags} \cup {NoRefEntry},
                            MaxFetchLen)}

\* a known-tags file and the answer the tag source gives at each startup
InitStore ==
    /\ pc = "store_call"
    /\ fn_in \in [file : StoreFiles, resp : StoreResponses]
    /\ fn_out = <<>>
    /\ WatcherIdle

\* fetch_all_tags for one repository: read, merge, write_known_tags
FetchAllOnce ==
    /\ pc = "store_call"
    /\ LET r == fetch_all_repo(fn_in.file, fn_in.resp)
       IN  IF r.ok
           THEN /\ \E f \in write_known_tags(r.tag_set) :
                      fn_out' = <<[tags |-> r.tag_set, file |-> f]>>
                /\ pc' = "store_once"
           ELSE /\ fn_out' = fn_out
                /\ pc' = "store_failed"
    /\ UNCHANGED <<fn_in, watcher_vars>>

\* the next startup: the file just written is read, the same answer is
\* merged again, and the result is written
FetchAllAgain ==
    /\ pc = "store_once"
    /\ LET r == fetch_all_repo(fn_out[1].file, fn_in.resp)
       IN  \E f \in write_known_tags(r.tag_set) :
              fn_out' = Append(fn_out, [tags |-> r.tag_set, file |-> f])
    /\ pc' = "store_twice"
    /\ UNCHANGED <<fn_in, watcher_vars>>

\* write_known_tags called once more, with a set of the same tags
WriteKnownTagsAgain ==
    /\ pc = "store_once"
    /\ \E f \in write_known_tags(fn_out[1].tags) :
          fn_out' = Append(fn_out, [tags |-> fn_out[1].tags, file |-> f])
    /\ pc' = "store_twice"
    /\ UNCHANGED <<fn_in, watcher_vars>>

NextStore == FetchAllOnce \/ FetchAllAgain \/ WriteKnownTagsAgain

SpecStore == InitStore /\ [][NextStore]_vars

\* ---------------------------------------------------------------- C22

\* the file holds exactly the tags of S, one per line and none twice, in
\* ascending compare_versions order
WrittenFileOf(f, S) ==
    /\ f.exists
    /\ Range(f.lines) = S
    /\ Len(f.lines) = Cardinality(S)
    /\ \A i, j \in 1..Len(f.lines) :
          i < j => compare_versions(f.lines[i], f.lines[j]) # "Greater"

\* C22: after write_known_tags(S) the known-tags file holds exactly the tags
\* of S, one per line, no line twice, in ascending compare_versions order,
\* and nothing else of what the file held before.
C22_FileIsSortedSetAfterWrite ==
    \A k \in 1..Len(fn_out) : WrittenFileOf(fn_out[k].file, fn_out[k].tags)

\* a file with a repeated line was overwritten with a set of three tags
C22_Witness ==
    /\ pc = "store_once"
    /\ fn_in.file = FileOf(<<v0_28_0, v0_28_0>>)
    /\ fn_out[1].tags = {v0_28_0, v0_28_0rc1, v0_9_2}
    /\ fn_out[1].file.lines = <<v0_9_2, v0_28_0rc1, v0_28_0>>

\* ---------------------------------------------------------------- C23

\* C23: persisting is idempotent and deterministic.  Writing the same set a
\* second time, or reading the file back, merging the same fetch again and
\* writing, leaves a file identical to the first one, whatever order the
\* in-memory set iterates in.
C23_SecondWriteGivesSameFile ==
    pc = "store_twice" =>
        /\ fn_out[2].tags = fn_out[1].tags
        /\ fn_out[2].file = fn_out[1].file

\* ---------------------------------------------------------------- C24

\* the tags an answer names, entries without a string ref left out
NamedBy(resp) ==
    {t \in StoreTags : \E i \in 1..Len(resp.entries) : resp.entries[i] = RefEntry(t)}

v21_0 == <<"v", "2", "1", ".", "0">>

v22_0 == <<"v", "2", "2", ".", "0">>

v0_21_1 == <<"v", "0", ".", "2", "1", ".", "1">>

v0_20_1 == <<"v", "0", ".", "2", "0", ".", "1">>

\* Builder::new: TRUE for Ok, FALSE for the bail!
Builder_new(version) == compare_versions(version, v21_0) # "Less"

Commands ==
    {"setup", "build", "attest", "codesign", "watch", "clean", "show_config"}

\* what Config::load finds: a complete file, no file, a file that is no TOML,
\* a table without one of the keys it indexes, or with a key that is no string
ConfigStates == {"complete", "missing", "not_toml", "key_absent", "key_not_string"}

\* Config::load: "Ok", "Err" for a `?`, or "Panic" for the index of the table
\* with a key that is not there
Config_load(cfg) ==
    IF cfg = "complete" THEN "Ok"
    ELSE IF cfg = "key_absent" THEN "Panic"
    ELSE "Err"

\* the tag argument of build, attest and codesign
MainTags == {v0_20_1, v0_21_0, v0_21_1, v22_0, v27_1}

\* the command line, the state of the disk, and how the external steps end
MainInputs ==
    [command : Commands, config : ConfigStates, tag : MainTags,
     wizard_ok : BOOLEAN, fetch_ok : BOOLEAN, init_ok : BOOLEAN,
     run_ok : BOOLEAN]

InitMain ==
    /\ pc = "main_start"
    /\ fn_in \in MainInputs
    /\ fn_out = [result |-> "none", did |-> {}]
    /\ WatcherIdle

\* main ends: Ok(()) is exit code 0, Err is 1, a panic is 101
MainExit(res, events) ==
    /\ pc' = "main_exited"
    /\ fn_out' = [result |-> res, did |-> fn_out.did \cup events]

MainGoOn(next, events) ==
    /\ pc' = next
    /\ fn_out' = [fn_out EXCEPT !.did = @ \cup events]

\* initialize_builder: Builder::new(String::new(), Setup, ..)?, then init()?
initialize_builder(init_ok) ==
    IF ~Builder_new(<<>>) THEN [ok |-> FALSE, events |-> {"new_failed"}]
    ELSE IF ~init_ok THEN [ok |-> FALSE, events |-> {"new", "init_failed"}]
    ELSE [ok |-> TRUE, events |-> {"new", "init"}]

\* main up to its second match: the configuration
ReadConfig ==
    /\ pc = "main_start"
    /\ IF fn_in.command = "setup"
       THEN MainGoOn("main_prepare", {})
       ELSE LET c == Config_load(fn_in.config)
            IN  IF c = "Ok" THEN MainGoOn("main_prepare", {}) ELSE MainExit(c, {})
    /\ UNCHANGED <<fn_in, watcher_vars>>

\* what an arm does before the command's own work: the wizard and the
\* second read_config of setup, fetch_all_tags of watch, initialize_builder
MainPrepare ==
    /\ pc = "main_prepare"
    /\ LET cmd == fn_in.command
           ib == initialize_builder(fn_in.init_ok)
       IN  IF cmd = "setup" /\ ~fn_in.wizard_ok
           THEN MainExit("Err", {"wizard_failed"})
           ELSE IF cmd = "setup" /\ Config_load(fn_in.config) # "Ok"
           THEN MainExit(Config_load(fn_in.config), {"wizard"})
           ELSE IF cmd = "watch" /\ ~fn_in.fetch_ok
           THEN MainExit("Err", {"fetch_failed"})
           ELSE LET before == IF cmd = "setup" THEN {"wizard"}
                              ELSE IF cmd = "watch" THEN {"fetch"} ELSE {}
                IN  IF cmd \in {"setup", "build", "watch"}
                    THEN IF ib.ok
                         THEN MainGoOn("main_body", before \cup ib.events)
                         ELSE MainExit("Err", before \cup ib.events)
                    ELSE MainGoOn("main_body", {})
    /\ UNCHANGED <<fn_in, watcher_vars>>

\* build_tag, non_codesigned and codesigned: Builder::new(..).expect(..),
\* then `if let Err(e) = tag_builder.run().await { error!(..) }`
stage_command(tag, run_ok) ==
    IF ~Builder_new(tag) THEN [result |-> "Panic", events |-> {"new_failed"}]
    ELSE IF ~run_ok THEN [result |-> "Ok", events |-> {"new", "run_failed"}]
    ELSE [result |-> "Ok", events |-> {"new", "run"}]

\* the Clean arm: Builder::new(String::new(), Clean, ..)?, then run()?
clean_command(run_ok) ==
    IF ~Builder_new(<<>>) THEN [result |-> "Err", events |-> {"new_failed"}]
    ELSE IF ~run_ok THEN [result |-> "Err", events |-> {"new", "run_failed"}]
    ELSE [result |-> "Ok", events |-> {"new", "run"}]

\* the command's own work, and main's Ok(())
MainBody ==
    /\ pc = "main_body"
    /\ LET cmd == fn_in.command
           r == IF cmd \in {"build", "attest", "codesign"}
                THEN stage_command(fn_in.tag, fn_in.run_ok)
                ELSE IF cmd = "clean" THEN clean_command(fn_in.run_ok)
                ELSE IF cmd = "watch" THEN [result |-> "Ok", events |-> {"watcher"}]
                ELSE [result |-> "Ok", events |-> {}]
       IN  MainExit(r.result, r.events)
    /\ UNCHANGED <<fn_in, watcher_vars>>

NextMain == ReadConfig \/ MainPrepare \/ MainBody

SpecMain == InitMain /\ [][NextMain]_vars

\* ---------------------------------------------------------------- C25

\* C25: build, attest and codesign hand the first error of their stage to the
\* process result: when making the Builder or Builder::run fails for the
\* tag, main does not end with Ok.
C25_StageErrorReachesExitCode ==
    /\ pc = "main_exited"
    /\ fn_in.command \in {"build", "attest", "codesign"}
    /\ fn_out.did \cap {"new_failed", "run_failed"} # {}
    => fn_out.result # "Ok"

\* ---------------------------------------------------------------- C26

\* C26: for every command but setup, a configuration that cannot be loaded
\* (no file, no TOML, a required key absent) makes Config::load return an
\* error value that main returns before it has made a builder, fetched or
\* started the watcher; setup starts without a configuration.
C26_ConfigErrorReturnedFirst ==
    /\ (pc = "main_exited" /\ fn_in.command # "setup"
           /\ fn_in.config # "complete" =>
          /\ fn_out.result = "Err"
          /\ fn_out.did = {})
    /\ (pc = "main_prepare" /\ fn_in.config # "complete" =>
          fn_in.command = "setup")

\* -------------------------------------------------- the watcher as a daemon

\* `watch stop`: stop_daemon sends SIGKILL to the pid of the PID file.  The
\* process ends where it stands: between two steps of run_watcher, or inside
\* the Builder::run that the cycle has just started, whose child processes
\* are not signalled.
StopDaemon ==
    /\ pc \in {"select", "wait"} \cup BodyPcs
    /\ pc' = "killed"
    /\ stop_cause' = "SIGKILL"
    /\ \/ UNCHANGED <<in_progress, dispatched, result>>
       \/ /\ pc = "A_build"
          /\ in_progress' = in_progress \cup {new_tags[idx]}
          /\ dispatched' = Dispatch(dispatched, "Build", new_tags[idx])
          /\ result' = "killed"
       \/ /\ pc = "A_attest"
          /\ dispatched' = Dispatch(dispatched, "NonCodeSigned", new_tags[idx])
          /\ result' = "killed"
          /\ UNCHANGED in_progress
       \/ /\ pc = "B_tag"
          /\ new_tags[idx] \in in_progress
          /\ dispatched' = Dispatch(dispatched, "CodeSigned", new_tags[idx])
          /\ result' = "killed"
          /\ UNCHANGED in_progress
    /\ UNCHANGED <<seen_tags_bitcoin, seen_tags_sigs, known_tags_bitcoin,
                   known_tags_sigs, new_tags, idx, sigint_ready, sigterm_ready,
                   cycles, succeeded, warned, ip_before, sig_in_body, fetched,
                   fn_in, fn_out>>

NextDaemon == Next \/ StopDaemon

SpecDaemon == Init /\ [][NextDaemon]_vars

\* ---------------------------------------------------------------- C27

\* C27: `watch stop` ends the watcher only between cycles, once the work of
\* the running cycle is over: the process is never ended while a cycle body
\* runs, so never in the middle of a Builder::run whose build subprocess
\* would be left behind.
C27_StopWaitsForTheCycle ==
    [][pc' = "killed" /\ pc # "killed" =>
          /\ pc \in {"select", "wait"}
          /\ result' # "killed"]_vars

\* ------------------------------------------ run_command_with_output on its own

\* how many bytes-worth of writes a pipe holds before a write blocks
PipeCap == 1

\* how many writes the child makes before it exits
MaxWrites == 3

Streams == {"out", "err"}

\* the child: the writes it makes to its two pipes, in order, and whether it
\* exits with status 0
ChildScripts == [writes : SeqsUpTo(Streams, MaxWrites), exit_ok : BOOLEAN]

\* mutant: one drain after the other: stderr is read once stdout is at its end
reader_runs_in_turn(stream, st) == stream = "out" \/ st.rd["out"] = "done"

\* each pipe has a thread of its own that reads it from the spawn on
reader_runs(stream, st) == TRUE

\* the child is spawned with both pipes empty, the two reader threads are
\* started, and the caller reaches child.wait()
InitPipe ==
    /\ pc = "cmd_wait"
    /\ fn_in \in ChildScripts
    /\ fn_out = [todo |-> fn_in.writes, alive |-> TRUE,
                 buf |-> [s \in Streams |-> 0],
                 rd |-> [s \in Streams |-> "reading"],
                 result |-> "none"]
    /\ WatcherIdle

\* the child writes a line to a pipe that has room
ChildWrite ==
    /\ fn_out.alive
    /\ fn_out.todo # <<>>
    /\ LET s == Head(fn_out.todo)
       IN  /\ fn_out.buf[s] < PipeCap
           /\ fn_out' = [fn_out EXCEPT !.todo = Tail(@), !.buf[s] = @ + 1]
    /\ UNCHANGED <<pc, fn_in, watcher_vars>>

\* the child has written everything and exits: its ends of the pipes close
ChildExit ==
    /\ fn_out.alive
    /\ fn_out.todo = <<>>
    /\ fn_out' = [fn_out EXCEPT !.alive = FALSE]
    /\ UNCHANGED <<pc, fn_in, watcher_vars>>

\* a reader thread takes a line from its pipe and prints it, or sees the
\* end of the pipe and finishes
ReaderStep(s) ==
    /\ fn_out.rd[s] = "reading"
    /\ reader_runs(s, fn_out)
    /\ \/ /\ fn_out.buf[s] > 0
          /\ fn_out' = [fn_out EXCEPT !.buf[s] = @ - 1]
       \/ /\ fn_out.buf[s] = 0
          /\ ~fn_out.alive
          /\ fn_out' = [fn_out EXCEPT !.rd[s] = "done"]
    /\ UNCHANGED <<pc, fn_in, watcher_vars>>

ReadStdout == ReaderStep("out")

ReadStderr == ReaderStep("err")

\* child.wait() returns
WaitReturns ==
    /\ pc = "cmd_wait"
    /\ ~fn_out.alive
    /\ pc' = "cmd_join_out"
    /\ UNCHANGED <<fn_in, fn_out, watcher_vars>>

\* stdout_handle.join()
JoinStdout ==
    /\ pc = "cmd_join_out"
    /\ fn_out.rd["out"] = "done"
    /\ pc' = "cmd_join_err"
    /\ UNCHANGED <<fn_in, fn_out, watcher_vars>>

\* stderr_handle.join(), then the status decides between bail! and Ok(())
JoinStderr ==
    /\ pc = "cmd_join_err"
    /\ fn_out.rd["err"] = "done"
    /\ pc' = "cmd_returned"
    /\ fn_out' = [fn_out EXCEPT !.result = IF fn_in.exit_ok THEN "Ok" ELSE "Err"]
    /\ UNCHANGED <<fn_in, watcher_vars>>

NextPipe ==
    \/ ChildWrite
    \/ ChildExit
    \/ ReadStdout
    \/ ReadStderr
    \/ WaitReturns
    \/ JoinStdout
    \/ JoinStderr

\* the child and the three threads are scheduled: a step that can be taken
\* is taken at some time
SpecPipe == InitPipe /\ [][NextPipe]_vars /\ WF_vars(NextPipe)

\* ---------------------------------------------------------------- C28

\* the child stands at a write to stream s whose pipe is full
BlockedOn(s) ==
    /\ fn_out.alive
    /\ fn_out.todo # <<>>
    /\ Head(fn_out.todo) = s
    /\ fn_out.buf[s] = PipeCap

\* C28: the two pipes of the child are drained by two readers that do not
\* wait for each other.  Whenever the child stands at a write to a full pipe
\* the reader of that pipe is running and can take a line, so the child is
\* not blocked forever and the function returns; when it returns the child
\* has exited, both pipes are empty, both readers are done, and the result
\* is an error exactly if the exit status was not 0.
C28_BothPipesDrained ==
    /\ [](\A s \in Streams :
            BlockedOn(s) => fn_out.rd[s] = "reading" /\ reader_runs(s, fn_out))
    /\ <>(pc = "cmd_returned")
    /\ [](pc = "cmd_returned" =>
            /\ ~fn_out.alive
            /\ \A s \in Streams : fn_out.buf[s] = 0 /\ fn_out.rd[s] = "done"
            /\ (fn_out.result = "Err") = ~fn_in.exit_ok
            /\ (fn_out.result = "Ok") = fn_in.exit_ok)

\* the child stands at a write to its full stderr pipe while the stdout
\* reader waits at an empty pipe, and has more to write to stdout afterwards
C28_Witness ==
    /\ BlockedOn("err")
    /\ fn_out.buf["out"] = 0
    /\ fn_out.rd["out"] = "reading"
    /\ Len(fn_out.todo) >= 2
    /\ fn_out.todo[2] = "out"

\* ---------------------------------------------------------------- C29

\* C29: Builder::new fails exactly for the tags that compare Less than
\* v0.21.0: v0.21.0 itself and every later tag (v0.21.1, v22.0, v27.1) get a
\* Builder.  Seen at attest and codesign, which make the Builder of the tag
\* first and panic when that fails.
C29_RejectsExactlyBelow_v0_21_0 ==
    pc = "main_exited" /\ fn_in.config = "complete"
      /\ fn_in.command \in {"attest", "codesign"} =>
        ("new_failed" \in fn_out.did)
            = (compare_versions(fn_in.tag, v0_21_0) = "Less")

\* ---------------------------------------------------------------- C30

\* C30: Builder::new accepts the empty version of the Setup and Clean
\* actions: initialize_builder and the clean command get their Builder, so
\* build, watch and clean with a complete configuration do not end at the
\* construction.
C30_EmptyVersionAccepted ==
    pc = "main_exited" /\ fn_in.config = "complete"
      /\ fn_in.command \in {"build", "clean"} =>
        "new" \in fn_out.did

\* ---------------------------------------------------------------- C31

\* C31: every tag the tag source returns to fetch_all_tags at the start is in
\* the initial known set of its repository, in the file or not, and is
\* written to the known-tags file; the watcher leaves the files alone, so they
\* keep what was known at the start, and no stage is ever dispatched for a
\* tag of the source repository's file, nor CodeSigned for a tag of the
\* signatures repository's file.
C31_UpstreamAtStartNeverDispatched ==
    /\ [](pc = "start_sigs" =>
            /\ Range(fetched) \subseteq seen_tags_bitcoin
            /\ read_known_tags(known_tags_bitcoin) = seen_tags_bitcoin)
    /\ [](pc = "select" /\ cycles = 0 =>
            /\ Range(fetched) \subseteq seen_tags_sigs
            /\ read_known_tags(known_tags_sigs) = seen_tags_sigs)
    /\ [][pc \notin {"start_bitcoin", "start_sigs"} =>
            UNCHANGED <<known_tags_bitcoin, known_tags_sigs>>]_vars
    /\ [](pc \notin {"start_bitcoin", "start_sigs", "failed"} =>
            /\ read_known_tags(known_tags_bitcoin) \subseteq seen_tags_bitcoin
            /\ read_known_tags(known_tags_sigs) \subseteq seen_tags_sigs
            /\ \A t \in read_known_tags(known_tags_bitcoin) :
                  \A a \in Actions : dispatched[a][t] = 0
            /\ \A t \in read_known_tags(known_tags_sigs) :
                  dispatched["CodeSigned"][t] = 0)

\* cycle A fetched a tag again that the file written at the start holds,
\* dispatched nothing for it, and built and attested another tag
C31_Witness ==
    /\ pc = "A_done"
    /\ result = "ok"
    /\ \E t \in Range(fetched) :
          /\ t \in read_known_tags(known_tags_bitcoin)
          /\ \A a \in Actions : dispatched[a][t] = 0
    /\ \E u \in Tags : Ok("Build", u) /\ Ok("NonCodeSigned", u)

\* ---------------------------------------------------------------- C32

\* cycle B has just been handed tag t as new while t was not in progress
NewToSigsNotInProgress(t) ==
    /\ pc \in BCyclePcs
    /\ t \in Range(new_tags)
    /\ t \notin ip_before

InitLoop ==
    /\ pc = "select"
    /\ seen_tags_bitcoin \in SUBSET Tags
    /\ seen_tags_sigs \in SUBSET Tags
    /\ in_progress = {}
    /\ known_tags_bitcoin \in write_known_tags(seen_tags_bitcoin)
    /\ known_tags_sigs \in write_known_tags(seen_tags_sigs)
    /\ new_tags = <<>>
    /\ idx = 0
    /\ result = "none"
    /\ sigint_ready = FALSE
    /\ sigterm_ready = FALSE
    /\ stop_cause = "none"
    /\ cycles = 0
    /\ dispatched = [a \in Actions |-> [t \in Tags |-> 0]]
    /\ succeeded = {}
    /\ warned = {}
    /\ ip_before = {}
    /\ sig_in_body = FALSE
    /\ fetched = <<>>
    /\ fn_in = <<>>
    /\ fn_out = <<>>

\* mutant: select! is `biased;` and polls its branches in the order they
\* are written, so the first sleep wins whenever both are over
SelectBranch_biased(first) ==
    /\ pc = "wait"
    /\ first = "A_fetch"
    /\ pc' = first
    /\ sigint_ready' = FALSE
    /\ cycles' = IF cycles < MaxCycles THEN cycles + 1 ELSE cycles
    /\ ip_before' = in_progress
    /\ UNCHANGED <<seen_tags_bitcoin, seen_tags_sigs, in_progress,
                   known_tags_bitcoin, known_tags_sigs, new_tags, idx, result,
                   sigterm_ready, stop_cause, dispatched, succeeded, warned,
                   sig_in_body, fetched, fn_in, fn_out>>

\* both sleep(poll_interval) futures are over when select! is polled and it
\* takes one of the two branches, whichever it looks at first; the count of
\* cycles stops at MaxCycles, the loop does not
SelectBranch(first) ==
    /\ pc = "wait"
    /\ pc' = first
    /\ sigint_ready' = FALSE
    /\ cycles' = IF cycles < MaxCycles THEN cycles + 1 ELSE cycles
    /\ ip_before' = in_progress
    /\ UNCHANGED <<seen_tags_bitcoin, seen_tags_sigs, in_progress,
                   known_tags_bitcoin, known_tags_sigs, new_tags, idx, result,
                   sigterm_ready, stop_cause, dispatched, succeeded, warned,
                   sig_in_body, fetched, fn_in, fn_out>>

SelectBranchA == SelectBranch("A_fetch")

SelectBranchB == SelectBranch("B_fetch")

NextLoop ==
    \/ Pend
    \/ SelectBranchA
    \/ SelectBranchB
    \/ FetchA
    \/ BuildA
    \/ AttestA
    \/ FetchB
    \/ SigsTag
    \/ EndCycle

\* the loop makes progress: a step that can be taken is taken
SpecLoop == InitLoop /\ [][NextLoop]_vars /\ WF_vars(NextLoop)

\* ---------------------------------------------------------------- C33

\* C33 as stated: with weak fairness on the progress of the loop alone, cycle
\* A and cycle B are both executed infinitely often.
C33_BothCyclesInfinitelyOften ==
    /\ []<>(pc = "A_fetch")
    /\ []<>(pc = "B_fetch")

\* C33, amended: when in addition each sleep branch that is ready again and
\* again is taken again and again (strong fairness of either branch of
\* select!), cycle A and cycle B are both executed infinitely often, whatever
\* the fetches and the builder runs return.
C33_BothCyclesUnderStrongFairness ==
    SF_vars(SelectBranchA) /\ SF_vars(SelectBranchB) =>
        ([]<>(pc = "A_fetch") /\ []<>(pc = "B_fetch"))

\* cycle B runs after MaxCycles bodies, one of which was a cycle A whose
\* Build failed
C33_Witness ==
    /\ pc = "B_fetch"
    /\ cycles = MaxCycles
    /\ \E t \in Tags : Failed("Build", t)

\* ------------------------------------------------- Builder::run on its own

BuildActions == {"Setup", "Build", "NonCodeSigned", "CodeSigned", "Clean"}

\* the external commands whose failure a step of run passes on with `?`; a
\* step that is not split further stands for its own commands
RunCommands ==
    {"refresh_repos", "checkout_bitcoin", "check_sdk", "guix_build",
     "guix_codesign", "guix_clean",
     "guix-attest", "git checkout -b", "git add", "cat", "git commit"}

\* the arms of the match in run: the calls of each action, in program order
run_steps(action) ==
    CASE action = "Setup" -> <<>>
      [] action = "Build" ->
            <<[fn |-> "refresh_repos", arg |-> ""],
              [fn |-> "checkout_bitcoin", arg |-> ""],
              [fn |-> "check_sdk", arg |-> ""],
              [fn |-> "guix_build", arg |-> ""]>>
      [] action = "NonCodeSigned" ->
            <<[fn |-> "checkout_bitcoin", arg |-> ""],
              [fn |-> "guix_attest", arg |-> "non-codesigned"]>>
      [] action = "CodeSigned" ->
            <<[fn |-> "checkout_bitcoin", arg |-> ""],
              [fn |-> "guix_codesign", arg |-> ""],
              [fn |-> "guix_attest", arg |-> "codesigned"]>>
      [] action = "Clean" -> <<[fn |-> "guix_clean", arg |-> ""]>>

\* the files commit_attestations hands to git add, below <version>/<signer>/
add_files(attestation_type) ==
    IF attestation_type = "all"
    THEN {"all.SHA256SUMS", "all.SHA256SUMS.asc",
          "noncodesigned.SHA256SUMS", "noncodesigned.SHA256SUMS.asc"}
    ELSE {"noncodesigned.SHA256SUMS", "noncodesigned.SHA256SUMS.asc"}

\* commit_attestations: new branch, git add, cat, commit, each with `?`
commit_attestations(attestation_type, fails) ==
    IF "git checkout -b" \in fails \/ "git add" \in fails
    THEN [ok |-> FALSE, staged |-> {}]
    ELSE [ok |-> "cat" \notin fails /\ "git commit" \notin fails,
          staged |-> add_files(attestation_type)]

\* guix_attest: the guix-attest script, then commit_attestations(a_type)
guix_attest(a_type, fails) ==
    IF "guix-attest" \in fails THEN [ok |-> FALSE, staged |-> {}]
    ELSE commit_attestations(a_type, fails)

\* one call of run's match arm
run_step(step, fails) ==
    IF step.fn = "guix_attest" THEN guix_attest(step.arg, fails)
    ELSE [ok |-> step.fn \notin fails, staged |-> {}]

\* an action and the commands that fail when they are run
InitRun ==
    /\ WatcherIdle
    /\ pc = "run_call"
    /\ fn_in \in [action : BuildActions, fails : SUBSET RunCommands]
    /\ fn_out = [pos |-> 1, done |-> <<>>, staged |-> {}, result |-> "none"]

\* mutant: the error of a step is logged and the next step runs
after_step_logged(ok) == "next"

\* the `?` after each call: an Err leaves run at once
after_step(ok) == IF ok THEN "next" ELSE "return"

\* run makes the next call of its arm
RunStep ==
    /\ pc = "run_call"
    /\ fn_out.pos <= Len(run_steps(fn_in.action))
    /\ LET step == run_steps(fn_in.action)[fn_out.pos]
           r == run_step(step, fn_in.fails)
           go_on == after_step(r.ok) = "next"
       IN  /\ fn_out' = [pos |-> fn_out.pos + 1,
                         done |-> Append(fn_out.done, step.fn),
                         staged |-> fn_out.staged \cup r.staged,
                         result |-> IF go_on THEN "none" ELSE "Err"]
           /\ pc' = IF go_on THEN "run_call" ELSE "run_returned"
    /\ UNCHANGED <<fn_in, watcher_vars>>

\* the arm is through: Ok(())
RunReturnsOk ==
    /\ pc = "run_call"
    /\ fn_out.pos > Len(run_steps(fn_in.action))
    /\ fn_out' = [fn_out EXCEPT !.result = "Ok"]
    /\ pc' = "run_returned"
    /\ UNCHANGED <<fn_in, watcher_vars>>

NextRun == RunStep \/ RunReturnsOk

SpecRun == InitRun /\ [][NextRun]_vars

\* ---------------------------------------------------------------- C34

\* the order of steps the claim gives for each stage
ClaimedOrder(action) ==
    CASE action = "Build" ->
            <<"refresh_repos", "checkout_bitcoin", "check_sdk", "guix_build">>
      [] action = "NonCodeSigned" -> <<"checkout_bitcoin", "guix_attest">>
      [] action = "CodeSigned" ->
            <<"checkout_bitcoin", "guix_codesign", "guix_attest">>

\* step fn fails when run: one of its commands does
StepFails(fn) ==
    IF fn = "guix_attest"
    THEN fn_in.fails \cap {"guix-attest", "git checkout -b", "git add", "cat",
                           "git commit"} # {}
    ELSE fn \in fn_in.fails

\* C34: the steps run executes are a prefix of the fixed order of its action,
\* every step but the last executed one succeeded, and run returns Err
\* exactly when the last executed step failed and Ok exactly when all steps
\* of the action were executed and none failed.
C34_StepsInOrderUntilFirstFailure ==
    pc \in {"run_call", "run_returned"}
      /\ fn_in.action \in {"Build", "NonCodeSigned", "CodeSigned"} =>
        LET order == ClaimedOrder(fn_in.action)
            done == fn_out.done
            n == Len(done)
        IN  /\ n <= Len(order)
            /\ \A i \in 1..n : done[i] = order[i]
            /\ \A i \in 1..n : i < n => ~StepFails(done[i])
            /\ pc = "run_returned" =>
                  /\ (fn_out.result = "Err") = (n >= 1 /\ StepFails(done[n]))
                  /\ (fn_out.result = "Ok") =
                        (done = order /\ \A i \in 1..n : ~StepFails(done[i]))
                  /\ fn_out.result \in {"Ok", "Err"}

\* CodeSigned stopped at a failed guix_codesign, and the attestation that
\* would have failed as well was not run
C34_Witness ==
    /\ pc = "run_returned"
    /\ fn_in.action = "CodeSigned"
    /\ fn_out.done = <<"checkout_bitcoin", "guix_codesign">>
    /\ fn_out.result = "Err"
    /\ "guix-attest" \in fn_in.fails

\* ---------------------------------------------------------------- C35

\* C35: after a CodeSigned run that returned Ok, the all.SHA256SUMS files
\* and the noncodesigned ones have been staged; after a NonCodeSigned run
\* that returned Ok, the noncodesigned files alone.
C35_CodesignedAttestationStagesAll ==
    pc = "run_returned" /\ fn_out.result = "Ok" =>
        /\ fn_in.action = "CodeSigned" => fn_out.staged = add_files("all")
        /\ fn_in.action = "NonCodeSigned" =>
              fn_out.staged = {"noncodesigned.SHA256SUMS",
                               "noncodesigned.SHA256SUMS.asc"}

\* ---------------------------------------------------------------- C36

\* C36: in every state of the watcher the in-progress set is a subset of the
\* source repository's in-memory known set.
C36_InProgressWithinKnown ==
    in_progress \subseteq seen_tags_bitcoin

\* cycle B runs while a built tag waits for its signatures
C36_Witness ==
    /\ pc = "B_tag"
    /\ in_progress # {}
    /\ \E t \in in_progress : Ok("Build", t) /\ Ok("NonCodeSigned", t)

\* ------------------------------------------------- stop_daemon on its own

\* str::trim_start, for the white space a PID file can hold
RECURSIVE trim_start(_)
trim_start(s) ==
    IF s # <<>> /\ Head(s) \in {" ", "\n", "\t"}
    THEN trim_start(Tail(s))
    ELSE s

\* str::trim_end
RECURSIVE trim_end(_)
trim_end(s) ==
    IF s # <<>> /\ s[Len(s)] \in {" ", "\n", "\t"}
    THEN trim_end(SubSeq(s, 1, Len(s) - 1))
    ELSE s

\* str::trim
trim(s) == trim_end(trim_start(s))

\* str::parse::<i32>().is_ok(): an optional sign, one or more digits, and a
\* value that fits (i32::MAX = 2147483647, i32::MIN = -2147483648)
parse_i32_ok(s) ==
    LET neg == s # <<>> /\ Head(s) = "-"
        body == IF s # <<>> /\ Head(s) \in {"+", "-"} THEN Tail(s) ELSE s
        max == IF neg THEN <<2, 1, 4, 7, 4, 8, 3, 6, 4, 8>>
               ELSE <<2, 1, 4, 7, 4, 8, 3, 6, 4, 7>>
    IN  /\ body # <<>>
        /\ \A i \in 1..Len(body) : IsDigit(body[i])
        /\ ~NumLess(max, DecimalValue(body))

NoPidFile == [exists |-> FALSE, readable |-> FALSE, text |-> <<>>]

\* no PID file, or one that holds what daemonize wrote or something else,
\* and that can be read or not
PidFiles ==
    LET texts ==
          {<<"4", "2", "4", "2", "\n">>, <<"7">>, <<" ", "7", "7", " ", "\n">>,
           <<>>, <<"\n">>, <<"p", "i", "d">>, <<"4", "2", "x">>,
           <<"4", " ", "2">>, <<"-", "4", "2">>,
           <<"2", "1", "4", "7", "4", "8", "3", "6", "4", "7">>,
           <<"2", "1", "4", "7", "4", "8", "3", "6", "4", "8">>,
           <<"+", "9">>, <<"4", ".", "2">>}
    IN  {NoPidFile} \cup [exists : {TRUE}, readable : BOOLEAN, text : texts]

\* the PID file, and whether kill and remove_file succeed when called
InitStop ==
    /\ WatcherIdle
    /\ pc = "stop_call"
    /\ fn_in \in [file : PidFiles, kill_ok : BOOLEAN, remove_ok : BOOLEAN]
    /\ fn_out = [file |-> fn_in.file, signals |-> <<>>, result |-> "none"]

StopGoes(next, out) ==
    /\ pc' = next
    /\ fn_out' = out
    /\ UNCHANGED <<fn_in, watcher_vars>>

\* if pid_file.exists() { .. } else { println!(..) }
StopExists ==
    /\ pc = "stop_call"
    /\ IF fn_out.file.exists
       THEN StopGoes("stop_read", fn_out)
       ELSE StopGoes("stop_returned", [fn_out EXCEPT !.result = "Ok"])

\* read_to_string(..)?.trim().parse::<i32>()?
StopReadPid ==
    /\ pc = "stop_read"
    /\ IF fn_out.file.readable /\ parse_i32_ok(trim(fn_out.file.text))
       THEN StopGoes("stop_kill", fn_out)
       ELSE StopGoes("stop_returned", [fn_out EXCEPT !.result = "Err"])

\* mutant: a PID file whose process cannot be signalled is cleaned up
pid_file_after_failed_kill_removed(file) == NoPidFile

\* a failed kill returns before remove_file
pid_file_after_failed_kill(file) == file

\* libc::kill(pid, SIGKILL), Err when it returns -1
StopKill ==
    /\ pc = "stop_kill"
    /\ LET sent == Append(fn_out.signals, trim(fn_out.file.text))
       IN  IF fn_in.kill_ok
           THEN StopGoes("stop_remove", [fn_out EXCEPT !.signals = sent])
           ELSE StopGoes("stop_returned",
                         [fn_out EXCEPT
                            !.file = pid_file_after_failed_kill(fn_out.file),
                            !.result = "Err"])

\* remove_file(pid_file)?, then Ok(())
StopRemove ==
    /\ pc = "stop_remove"
    /\ IF fn_in.remove_ok
       THEN StopGoes("stop_returned",
                     [fn_out EXCEPT !.file = NoPidFile, !.result = "Ok"])
       ELSE StopGoes("stop_returned", [fn_out EXCEPT !.result = "Err"])

NextStop == StopExists \/ StopReadPid \/ StopKill \/ StopRemove

SpecStop == InitStop /\ [][NextStop]_vars

\* ---------------------------------------------------------------- C37

\* C37: when stop_daemon has returned Ok the PID file does not exist; when
\* the PID file was absent no signal has been sent; when stop_daemon has
\* returned an error the PID file is as it was before the call.
C37_PidFileAfterStop ==
    pc = "stop_returned" =>
        /\ fn_out.result \in {"Ok", "Err"}
        /\ (fn_out.result = "Ok" => ~fn_out.file.exists)
        /\ (~fn_in.file.exists => fn_out.signals = <<>>)
        /\ (fn_out.result = "Err" => fn_out.file = fn_in.file)

\* the kill could not be sent, stop_daemon returned an error and the PID
\* file is still there
C37_Witness ==
    /\ pc = "stop_returned"
    /\ fn_out.result = "Err"
    /\ ~fn_in.kill_ok
    /\ parse_i32_ok(trim(fn_in.file.text))
    /\ fn_in.file.readable
    /\ fn_out.file.exists

\* -------------------------------------------- xor_encrypt and xor_decrypt

\* longest of the strings of every shape that are encrypted and decrypted
XorMaxLen == 3

\* b"BGTBuilder2024"
ENCRYPTION_KEY == <<66, 71, 84, 66, 117, 105, 108, 100, 101, 114, 50, 48, 50, 52>>

\* u8 ^ u8, bit by bit
RECURSIVE bitxor(_, _)
bitxor(a, b) ==
    IF a = 0 /\ b = 0 THEN 0
    ELSE (((a % 2) + (b % 2)) % 2) + (2 * bitxor(a \div 2, b \div 2))

\* str::bytes: the UTF-8 encoding of a string given as its code points
\* (below U+0800: one byte, or two)
RECURSIVE utf8_bytes(_)
utf8_bytes(s) ==
    IF s = <<>> THEN <<>>
    ELSE (IF Head(s) < 128 THEN <<Head(s)>>
          ELSE <<192 + (Head(s) \div 64), 128 + (Head(s) % 64)>>)
         \o utf8_bytes(Tail(s))

\* u8::to_string
RECURSIVE u8_to_string(_)
u8_to_string(n) ==
    IF n < 10 THEN <<Digits[n + 1]>>
    ELSE u8_to_string(n \div 10) \o <<Digits[(n % 10) + 1]>>

\* [String]::join(sep); nothing joined is the empty string
RECURSIVE join(_, _)
join(pieces, sep) ==
    IF pieces = <<>> THEN <<>>
    ELSE IF Len(pieces) = 1 THEN pieces[1]
    ELSE pieces[1] \o sep \o join(Tail(pieces), sep)

\* xor_encrypt: every byte xor-ed with the cycled key, in decimal, comma
\* separated
xor_encrypt(data) ==
    LET bytes == utf8_bytes(data)
        k(i) == ENCRYPTION_KEY[((i - 1) % Len(ENCRYPTION_KEY)) + 1]
    IN  join([i \in 1..Len(bytes) |-> u8_to_string(bitxor(bytes[i], k(i)))],
             <<",">>)

\* xor_decrypt: split at the commas, parse::<u8>().unwrap() each piece (an
\* optional "+", digits, at most 255; anything else panics), xor with the
\* cycled key, and take every byte `as char`
xor_decrypt(data) ==
    LET pieces == split(data, <<",">>)
        k(i) == ENCRYPTION_KEY[((i - 1) % Len(ENCRYPTION_KEY)) + 1]
        body(p) == IF p # <<>> /\ Head(p) = "+" THEN Tail(p) ELSE p
        digits(p) == DecimalValue(body(p))
        value(p) ==
            LET d == digits(p)
            IN  IF Len(d) = 0 THEN 0
                ELSE IF Len(d) = 1 THEN d[1]
                ELSE IF Len(d) = 2 THEN (10 * d[1]) + d[2]
                ELSE (100 * d[1]) + (10 * d[2]) + d[3]
        is_u8(p) ==
            /\ body(p) # <<>>
            /\ \A i \in 1..Len(body(p)) : IsDigit(body(p)[i])
            /\ Len(digits(p)) <= 3
            /\ value(p) <= 255
    IN  IF \E i \in 1..Len(pieces) : ~is_u8(pieces[i])
        THEN [ok |-> FALSE, text |-> <<>>]
        ELSE [ok |-> TRUE,
              text |-> [i \in 1..Len(pieces) |-> bitxor(value(pieces[i]), k(i))]]

\* a string to encrypt, as code points: every string of up to XorMaxLen
\* characters out of B, 0, z and e-acute, or one of two strings longer than
\* the key
InitXor ==
    /\ WatcherIdle
    /\ pc = "xor_call"
    /\ fn_in \in SeqsUpTo({66, 48, 122, 233}, XorMaxLen)
                 \cup {[i \in 1..15 |-> 96 + i], [i \in 1..29 |-> 47 + i]}
    /\ fn_out = [cipher |-> <<>>, result |-> "none", plain |-> <<>>]

CallXorEncrypt ==
    /\ pc = "xor_call"
    /\ pc' = "xor_encrypted"
    /\ fn_out' = [fn_out EXCEPT !.cipher = xor_encrypt(fn_in)]
    /\ UNCHANGED <<fn_in, watcher_vars>>

CallXorDecrypt ==
    /\ pc = "xor_encrypted"
    /\ pc' = "xor_returned"
    /\ LET r == xor_decrypt(fn_out.cipher)
       IN  fn_out' = [fn_out EXCEPT !.result = IF r.ok THEN "Ok" ELSE "Panic",
                                    !.plain = r.text]
    /\ UNCHANGED <<fn_in, watcher_vars>>

NextXor == CallXorEncrypt \/ CallXorDecrypt

SpecXor == InitXor /\ [][NextXor]_vars

\* ---------------------------------------------------------------- C38

\* C38: xor_decrypt(xor_encrypt(s)) returns s, without failing, for every
\* string s, the empty string and strings longer than the key included.
C38_DecryptInvertsEncrypt ==
    pc = "xor_returned" =>
        /\ fn_out.result = "Ok"
        /\ fn_out.plain = fn_in

============================================================================
